---- MODULE Spec2Model ----
(***************************************************************************)
(* hemli: a local secret cache in front of external secret providers.      *)
(* The model follows src/src/main.rs (cmd_get, cmd_delete, cmd_edit,       *)
(* cmd_list, cmd_inspect), src/src/model.rs (StoredSecret),                *)
(* src/src/store.rs (keyring adapter), src/src/index.rs (listing index)    *)
(* and src/src/source.rs (fetch_secret).                                   *)
(*                                                                         *)
(* One CLI invocation is one process: it parses its arguments, runs one    *)
(* handler to the end and exits.  The persistent state is the OS keyring   *)
(* and the index file; the wall clock advances between and inside          *)
(* invocations.                                                            *)
(***************************************************************************)
EXTENDS Integers, Sequences, FiniteSets, TLC

\* ------------------------------------------------------------------ bounds

\* The wall clock runs over 0..MaxTime (one unit = one second of TTL).
MaxTime == 2

\* Largest and smallest instant a Timestamp can hold (jiff's Timestamp::MAX
\* and Timestamp::MIN), scaled to the clock of the model.
TsMax == MaxTime + 1
TsMin == 0 - TsMax

\* ----------------------------------------------------------------- options

\* Option<T>: None is the empty tuple, Some(x) the one-element tuple.
None == <<>>
Some(x) == <<x>>
IsSome(o) == o # <<>>
IsNone(o) == o = <<>>
Unwrap(o) == o[1]

\* ------------------------------------------------------------ input domains

Namespaces == {"n1", "n2"}
Names == {"s1", "s2"}

\* Text is a sequence of characters.
Whitespace == {" ", "\n"}

\* Command lines a caller may pass; the last one is blank.
Commands == {<<"x">>, <<" ">>}

\* TTL overrides a caller may pass (seconds); --ttl is an i64 and may be
\* negative.
TTLs == {-1, 0, 1, 2}

\* What a source command may print on standard output.
Stdouts == {<<"v">>, <<" ", "w", "\n">>}

\* What running a process may do: fail to spawn, exit non-zero, or exit
\* zero with some standard output.
ProcOutcomes ==
    {[spawned |-> FALSE, success |-> FALSE, stdout |-> <<>>],
     [spawned |-> TRUE, success |-> FALSE, stdout |-> <<>>]}
    \cup {[spawned |-> TRUE, success |-> TRUE, stdout |-> s] : s \in Stdouts}

\* Time a source command may take.
FetchTicks == {0, 1}

\* --------------------------------------------------------------- model.rs

SourceTypes == {"sh", "cmd"}

\* created_at.checked_add(SignedDuration::from_secs(ttl)): None when the sum
\* is not a Timestamp.
CheckedAdd(ts, secs) ==
    IF ts + secs >= TsMin /\ ts + secs <= TsMax THEN Some(ts + secs) ELSE None

\* StoredSecret::new with created_at left at the epoch.
StoredSecretNewEpoch(value, source_command, source_type, ttl_seconds, t) ==
    LET sum == IF IsSome(ttl_seconds) THEN CheckedAdd(0, Unwrap(ttl_seconds)) ELSE None
    IN  IF IsSome(ttl_seconds) /\ IsNone(sum)
        THEN None
        ELSE Some([value |-> value, created_at |-> 0,
                   source_command |-> source_command, source_type |-> source_type,
                   ttl_seconds |-> ttl_seconds, expires_at |-> sum])

\* StoredSecret::new that does not keep the source command.
StoredSecretNewNoSource(value, source_command, source_type, ttl_seconds, t) ==
    LET sum == IF IsSome(ttl_seconds) THEN CheckedAdd(t, Unwrap(ttl_seconds)) ELSE None
    IN  IF IsSome(ttl_seconds) /\ IsNone(sum)
        THEN None
        ELSE Some([value |-> value, created_at |-> t,
                   source_command |-> None, source_type |-> None,
                   ttl_seconds |-> ttl_seconds, expires_at |-> sum])

\* StoredSecret::new that does not compute expires_at.
StoredSecretNewNoExpiry(value, source_command, source_type, ttl_seconds, t) ==
    Some([value |-> value, created_at |-> t,
          source_command |-> source_command, source_type |-> source_type,
          ttl_seconds |-> ttl_seconds, expires_at |-> None])

\* StoredSecret::new that clamps expires_at to the largest Timestamp instead
\* of panicking.
StoredSecretNewSaturating(value, source_command, source_type, ttl_seconds, t) ==
    LET sum == IF IsSome(ttl_seconds) THEN CheckedAdd(t, Unwrap(ttl_seconds)) ELSE None
    IN  Some([value |-> value, created_at |-> t,
              source_command |-> source_command, source_type |-> source_type,
              ttl_seconds |-> ttl_seconds,
              expires_at |-> IF IsSome(ttl_seconds) /\ IsNone(sum)
                             THEN Some(TsMax) ELSE sum])

\* StoredSecret::new at clock reading t.  The result is None when the
\* unwrap of checked_add panics.
StoredSecretNew(value, source_command, source_type, ttl_seconds, t) ==
    LET created_at == t
        sum == IF IsSome(ttl_seconds)
               THEN CheckedAdd(created_at, Unwrap(ttl_seconds))
               ELSE None
    IN  IF IsSome(ttl_seconds) /\ IsNone(sum)
        THEN None
        ELSE Some([value |-> value,
                   created_at |-> created_at,
                   source_command |-> source_command,
                   source_type |-> source_type,
                   ttl_seconds |-> ttl_seconds,
                   expires_at |-> sum])

\* is_expired that allows one more clock reading after expires_at.
IsExpiredLate(s, t) ==
    IF IsSome(s.expires_at) THEN t > Unwrap(s.expires_at) + 1 ELSE FALSE

\* is_expired with the equality counted as expired.
IsExpiredAtEquality(s, t) ==
    IF IsSome(s.expires_at) THEN t >= Unwrap(s.expires_at) ELSE FALSE

\* StoredSecret::is_expired at clock reading t.
IsExpired(s, t) ==
    IF IsSome(s.expires_at) THEN t > Unwrap(s.expires_at) ELSE FALSE

\* StoredSecret::recalculate_expires_at, called by cmd_edit after it sets
\* ttl_seconds: expires_at is created_at + ttl_seconds, or absent when
\* ttl_seconds is absent.  Like StoredSecret::new it has no Timestamp to give
\* when the sum is out of range: the result is then None and cmd_edit stops.
RecalculateExpiresAt(s) ==
    LET sum == IF IsSome(s.ttl_seconds)
               THEN CheckedAdd(s.created_at, Unwrap(s.ttl_seconds))
               ELSE None
    IN  IF IsSome(s.ttl_seconds) /\ IsNone(sum)
        THEN None
        ELSE Some([s EXCEPT !.expires_at = sum])

\* The serde form of a StoredSecret: an object in which an optional field
\* that is None is left out (skip_serializing_if).
JsonKeys(s) ==
    {"value", "created_at"}
    \cup (IF IsSome(s.source_command) THEN {"source_command"} ELSE {})
    \cup (IF IsSome(s.source_type) THEN {"source_type"} ELSE {})
    \cup (IF IsSome(s.ttl_seconds) THEN {"ttl_seconds"} ELSE {})
    \cup (IF IsSome(s.expires_at) THEN {"expires_at"} ELSE {})

ToJson(s) ==
    [k \in JsonKeys(s) |->
        CASE k = "value" -> s.value
          [] k = "created_at" -> s.created_at
          [] k = "source_command" -> Unwrap(s.source_command)
          [] k = "source_type" -> Unwrap(s.source_type)
          [] k = "ttl_seconds" -> Unwrap(s.ttl_seconds)
          [] k = "expires_at" -> Unwrap(s.expires_at)]

JsonOpt(j, k) == IF k \in DOMAIN j THEN Some(j[k]) ELSE None

FromJson(j) ==
    [value |-> j["value"],
     created_at |-> j["created_at"],
     source_command |-> JsonOpt(j, "source_command"),
     source_type |-> JsonOpt(j, "source_type"),
     ttl_seconds |-> JsonOpt(j, "ttl_seconds"),
     expires_at |-> JsonOpt(j, "expires_at")]

\* --------------------------------------------------------------- store.rs

\* service_name that is the same for every namespace.
ServiceNameShared(namespace) == "hemli:"

\* store.rs, service_name
ServiceName(namespace) == "hemli:" \o namespace

KeyringKeys == {<<ServiceName(ns), n>> : ns \in Namespaces, n \in Names}

\* store::get_secret: the record under the key, None on NoEntry.
GetSecret(kr, namespace, name) ==
    LET entry == kr[<<ServiceName(namespace), name>>]
    IN  IF IsSome(entry) THEN Some(FromJson(Unwrap(entry))) ELSE None

\* set_secret that writes the fields of the record one by one and is
\* overtaken before it writes the value: the entry keeps the value it had.
SetSecretTorn(kr, namespace, name, secret) ==
    LET old == kr[<<ServiceName(namespace), name>>]
    IN  [kr EXCEPT ![<<ServiceName(namespace), name>>] =
            IF IsSome(old)
            THEN Some(ToJson([secret EXCEPT !.value = Unwrap(old)["value"]]))
            ELSE Some(ToJson(secret))]

\* store::set_secret: the keyring with the record written under the key.
SetSecret(kr, namespace, name, secret) ==
    [kr EXCEPT ![<<ServiceName(namespace), name>>] = Some(ToJson(secret))]

\* store::delete_secret: the keyring without the key; NoEntry is not an error.
DeleteSecret(kr, namespace, name) ==
    [kr EXCEPT ![<<ServiceName(namespace), name>>] = None]

\* --------------------------------------------------------------- index.rs

\* load_index: the empty index when the file does not exist.
LoadIndex(file) == IF IsSome(file) THEN Unwrap(file) ELSE <<>>

\* save_index: the file holding the index.
SaveIndex(idx) == Some(idx)

Matches(e, namespace, secret) == e.namespace = namespace /\ e.secret = secret

\* upsert_entry that pushes a new entry whether or not the pair is there.
UpsertEntryPush(idx, namespace, secret, created_at) ==
    Append(idx, [namespace |-> namespace, secret |-> secret,
                 created_at |-> created_at])

\* upsert_entry
UpsertEntry(idx, namespace, secret, created_at) ==
    IF \E i \in 1..Len(idx) : Matches(idx[i], namespace, secret)
    THEN LET first == CHOOSE i \in 1..Len(idx) :
                          /\ Matches(idx[i], namespace, secret)
                          /\ \A k \in 1..(i - 1) : ~Matches(idx[k], namespace, secret)
         IN  [idx EXCEPT ![first].created_at = created_at]
    ELSE Append(idx, [namespace |-> namespace,
                      secret |-> secret,
                      created_at |-> created_at])

\* remove_entry
RemoveEntry(idx, namespace, secret) ==
    SelectSeq(idx, LAMBDA e : ~Matches(e, namespace, secret))

\* filter_entries that ignores the namespace.
FilterEntriesAll(idx, namespace) == idx

\* filter_entries
FilterEntries(idx, namespace) ==
    IF IsSome(namespace)
    THEN SelectSeq(idx, LAMBDA e : e.namespace = Unwrap(namespace))
    ELSE idx

\* -------------------------------------------------------------- source.rs

RECURSIVE TrimStart(_)
TrimStart(s) ==
    IF s # <<>> /\ Head(s) \in Whitespace THEN TrimStart(Tail(s)) ELSE s

RECURSIVE TrimEnd(_)
TrimEnd(s) ==
    IF s # <<>> /\ s[Len(s)] \in Whitespace
    THEN TrimEnd(SubSeq(s, 1, Len(s) - 1))
    ELSE s

\* str::trim
Trim(s) == TrimEnd(TrimStart(s))

\* command.split_whitespace() yields no part.
PartsIsEmpty(command) == \A i \in 1..Len(command) : command[i] \in Whitespace

\* fetch_secret: status "ok" with the trimmed standard output, "SourceFailed"
\* or "Io"; spawned tells whether a process was started.
FetchSecret(command, source_type, proc) ==
    IF source_type = "cmd" /\ PartsIsEmpty(command)
    THEN [status |-> "SourceFailed", value |-> <<>>, spawned |-> FALSE]
    ELSE IF ~proc.spawned
         THEN [status |-> "Io", value |-> <<>>, spawned |-> FALSE]
         ELSE IF ~proc.success
              THEN [status |-> "SourceFailed", value |-> <<>>, spawned |-> TRUE]
              ELSE [status |-> "ok", value |-> Trim(proc.stdout), spawned |-> TRUE]

\* ----------------------------------------------------------------- main.rs

\* What a handler hands back to the process: the persistent state it leaves,
\* the clock when it ends, and what the caller observes.
\*   status : "ok" or the error the invocation ends with
\*   stdout : the secret value printed (get), None when nothing is printed
\*   rows   : the lines printed by list
\*   json   : the record printed by inspect
\*   calls  : the (command, mode) pairs handed to fetch_secret, in order
\*   procs  : the number of processes fetch_secret started
\*   fetched : the value fetch_secret returned, None when it returned none
\*   existing : the record the handler loaded from the keyring
\*   stored : the record the handler built (cmd_get line 128, cmd_edit)
\*   at     : the line of main.rs at which the handler returned
Outcome(kr, file, t, status, stdout, existing, at) ==
    [keyring |-> kr, indexFile |-> file, now |-> t,
     res |-> [status |-> status, stdout |-> stdout, rows |-> <<>>,
              json |-> None, calls |-> <<>>, procs |-> 0, fetched |-> None,
              existing |-> existing, stored |-> None, at |-> at]]

\* GetNoRefresh with an expired record treated as missing.
GetNoRefreshFreshOnly(kr, file, t, existing) ==
    IF IsSome(existing) /\ ~IsExpired(Unwrap(existing), t)
    THEN Outcome(kr, file, t, "ok", Some(Unwrap(existing).value), existing, "L86")
    ELSE Outcome(kr, file, t, "NotFound", None, existing, "L89")

\* cmd_get, lines 82-96: --no-refresh.
GetNoRefresh(kr, file, t, existing) ==
    IF IsSome(existing)
    THEN Outcome(kr, file, t, "ok", Some(Unwrap(existing).value), existing, "L86")
    ELSE Outcome(kr, file, t, "NotFound", None, existing, "L89")

\* NeedsRefresh without the expiry test.
NeedsRefreshNoExpiry(force_refresh, existing, t) ==
    force_refresh \/ IsNone(existing)

\* cmd_get, lines 98-99.
NeedsRefresh(force_refresh, existing, t) ==
    \/ force_refresh
    \/ IsNone(existing)
    \/ (IsSome(existing) /\ IsExpired(Unwrap(existing), t))

\* GetCached writing the record back with a new created_at.
GetCachedTouch(kr, file, t, existing) ==
    LET touched == [Unwrap(existing) EXCEPT !.created_at = t]
    IN  Outcome([k \in DOMAIN kr |->
                    IF kr[k] = Some(ToJson(Unwrap(existing)))
                    THEN Some(ToJson(touched))
                    ELSE kr[k]],
                file, t, "ok", Some(Unwrap(existing).value), existing, "L105")

\* cmd_get, lines 101-106: the cache hit.
GetCached(kr, file, t, existing) ==
    Outcome(kr, file, t, "ok", Some(Unwrap(existing).value), existing, "L105")

\* ResolveSource with the remembered source taking priority over the overrides.
ResolveSourceStoredFirst(source_sh, source_cmd, existing) ==
    IF /\ IsSome(existing)
       /\ IsSome(Unwrap(existing).source_command)
       /\ IsSome(Unwrap(existing).source_type)
    THEN Some(<<Unwrap(Unwrap(existing).source_command),
                Unwrap(Unwrap(existing).source_type)>>)
    ELSE IF IsSome(source_sh) THEN Some(<<Unwrap(source_sh), "sh">>)
    ELSE IF IsSome(source_cmd) THEN Some(<<Unwrap(source_cmd), "cmd">>)
    ELSE None

\* cmd_get, lines 108-120: the (command, mode) to fetch with, None for NoSource.
ResolveSource(source_sh, source_cmd, existing) ==
    IF IsSome(source_sh) THEN Some(<<Unwrap(source_sh), "sh">>)
    ELSE IF IsSome(source_cmd) THEN Some(<<Unwrap(source_cmd), "cmd">>)
    ELSE IF IsSome(existing)
         THEN LET entry == Unwrap(existing)
              IN  IF IsSome(entry.source_command) /\ IsSome(entry.source_type)
                  THEN Some(<<Unwrap(entry.source_command), Unwrap(entry.source_type)>>)
                  ELSE None
         ELSE None

\* EffectiveTtl without the fallback to the existing record.
EffectiveTtlOverrideOnly(ttl, existing) == ttl

\* cmd_get, line 126.
EffectiveTtl(ttl, existing) ==
    IF IsSome(ttl) THEN ttl
    ELSE IF IsSome(existing) THEN Unwrap(existing).ttl_seconds
    ELSE None

\* Persist that writes the index whatever --no-store says.
PersistIndexAlways(kr, file, no_store, namespace, secret, stored) ==
    [keyring |-> IF ~no_store THEN SetSecret(kr, namespace, secret, stored) ELSE kr,
     indexFile |-> SaveIndex(UpsertEntry(LoadIndex(file), namespace, secret,
                                         stored.created_at))]

\* Persist that leaves the index entry of a pair that is already listed as
\* it is.
PersistKeepEntry(kr, file, no_store, namespace, secret, stored) ==
    IF ~no_store
    THEN [keyring |-> SetSecret(kr, namespace, secret, stored),
          indexFile |->
              IF \E i \in 1..Len(LoadIndex(file)) :
                    Matches(LoadIndex(file)[i], namespace, secret)
              THEN SaveIndex(LoadIndex(file))
              ELSE SaveIndex(UpsertEntry(LoadIndex(file), namespace, secret,
                                         stored.created_at))]
    ELSE [keyring |-> kr, indexFile |-> file]

\* cmd_get, lines 130-139: the keyring and the index file the handler leaves
\* once the record is built.
Persist(kr, file, no_store, namespace, secret, stored) ==
    IF ~no_store
    THEN [keyring |-> SetSecret(kr, namespace, secret, stored),
          indexFile |-> SaveIndex(UpsertEntry(LoadIndex(file), namespace, secret,
                                              stored.created_at))]
    ELSE [keyring |-> kr, indexFile |-> file]

\* GetFetch that prints the existing value when the source fails.
GetFetchFallback(kr, file, t, r, existing, source, env) ==
    LET cmd_str == source[1]
        src_type == source[2]
        fetched == FetchSecret(cmd_str, src_type, env.proc)
        t1 == t + env.ticks
        called(o) == [o EXCEPT !.res.calls = <<source>>,
                               !.res.procs = IF fetched.spawned THEN 1 ELSE 0]
    IN
    IF fetched.status # "ok"
    THEN IF IsSome(existing)
         THEN called(Outcome(kr, file, t1, "ok", Some(Unwrap(existing).value),
                             existing, "L123"))
         ELSE called(Outcome(kr, file, t1, fetched.status, None, existing, "L123"))
    ELSE
    LET value == fetched.value
        effective_ttl == EffectiveTtl(r.ttl, existing)
        built == StoredSecretNew(value, Some(cmd_str), Some(src_type),
                                 effective_ttl, t1)
        got(o) == [called(o) EXCEPT !.res.fetched = Some(value)]
    IN
    IF IsNone(built)
    THEN got(Outcome(kr, file, t1, "panic", None, existing, "L128"))
    ELSE
    LET stored == Unwrap(built)
        left == Persist(kr, file, r.no_store, r.namespace, r.secret, stored)
        o == Outcome(left.keyring, left.indexFile, t1, "ok", Some(value),
                     existing, "L142")
    IN  [got(o) EXCEPT !.res.stored = built]

\* cmd_get, lines 122-142: fetch, build, store, print.  env.proc is what the
\* source process does if one is started, env.ticks how long the fetch takes.
GetFetch(kr, file, t, r, existing, source, env) ==
    LET cmd_str == source[1]
        src_type == source[2]
        fetched == FetchSecret(cmd_str, src_type, env.proc)
        t1 == t + env.ticks
        called(o) == [o EXCEPT !.res.calls = <<source>>,
                               !.res.procs = IF fetched.spawned THEN 1 ELSE 0]
    IN
    IF fetched.status # "ok"
    THEN called(Outcome(kr, file, t1, fetched.status, None, existing, "L123"))
    ELSE
    LET value == fetched.value
        effective_ttl == EffectiveTtl(r.ttl, existing)
        built == StoredSecretNew(value, Some(cmd_str), Some(src_type),
                                 effective_ttl, t1)
        got(o) == [called(o) EXCEPT !.res.fetched = Some(value)]
    IN
    IF IsNone(built)
    THEN got(Outcome(kr, file, t1, "panic", None, existing, "L128"))
    ELSE
    LET stored == Unwrap(built)
        left == Persist(kr, file, r.no_store, r.namespace, r.secret, stored)
        o == Outcome(left.keyring, left.indexFile, t1, "ok", Some(value),
                     existing, "L142")
    IN  [got(o) EXCEPT !.res.stored = built]

\* cmd_get that serves the stored value when no source is available.
CmdGetServeStale(kr, file, t, r, env) ==
    LET existing == GetSecret(kr, r.namespace, r.secret)
    IN
    IF r.no_refresh
    THEN GetNoRefresh(kr, file, t, existing)
    ELSE IF ~NeedsRefresh(r.force_refresh, existing, t)
    THEN GetCached(kr, file, t, existing)
    ELSE
    LET source == ResolveSource(r.source_sh, r.source_cmd, existing)
    IN
    IF IsNone(source)
    THEN IF IsSome(existing)
         THEN GetCached(kr, file, t, existing)
         ELSE Outcome(kr, file, t, "NoSource", None, existing, "L119")
    ELSE GetFetch(kr, file, t, r, existing, Unwrap(source), env)

\* cmd_get from keyring kr, index file `file` and clock t.
CmdGet(kr, file, t, r, env) ==
    LET existing == GetSecret(kr, r.namespace, r.secret)
    IN
    IF r.no_refresh
    THEN GetNoRefresh(kr, file, t, existing)
    ELSE IF ~NeedsRefresh(r.force_refresh, existing, t)
    THEN GetCached(kr, file, t, existing)
    ELSE
    LET source == ResolveSource(r.source_sh, r.source_cmd, existing)
    IN
    IF IsNone(source)
    THEN Outcome(kr, file, t, "NoSource", None, existing,
                 IF IsSome(existing) THEN "L116" ELSE "L119")
    ELSE GetFetch(kr, file, t, r, existing, Unwrap(source), env)

\* cmd_delete that leaves the index file alone.
CmdDeleteKeyringOnly(kr, file, t, r) ==
    Outcome(DeleteSecret(kr, r.namespace, r.secret), file, t, "ok", None, None,
            "L154")

\* cmd_delete
CmdDelete(kr, file, t, r) ==
    Outcome(DeleteSecret(kr, r.namespace, r.secret),
            SaveIndex(RemoveEntry(LoadIndex(file), r.namespace, r.secret)),
            t, "ok", None, None, "L154")

\* EditTtl that clears ttl_seconds without recalculating expires_at.
EditTtlClearOnly(stored, ttl, clear_ttl) ==
    IF clear_ttl
    THEN Some([stored EXCEPT !.ttl_seconds = None])
    ELSE IF IsSome(ttl)
         THEN RecalculateExpiresAt([stored EXCEPT !.ttl_seconds = ttl])
         ELSE Some(stored)

\* EditTtl that sets ttl_seconds without recalculating expires_at.
EditTtlSetOnly(stored, ttl, clear_ttl) ==
    IF clear_ttl
    THEN RecalculateExpiresAt([stored EXCEPT !.ttl_seconds = None])
    ELSE IF IsSome(ttl)
         THEN Some([stored EXCEPT !.ttl_seconds = ttl])
         ELSE Some(stored)

\* cmd_edit, lines 190-196: the record with its TTL edited, None when
\* recalculate_expires_at panics.
EditTtl(stored, ttl, clear_ttl) ==
    IF clear_ttl
    THEN RecalculateExpiresAt([stored EXCEPT !.ttl_seconds = None])
    ELSE IF IsSome(ttl)
         THEN RecalculateExpiresAt([stored EXCEPT !.ttl_seconds = ttl])
         ELSE Some(stored)

\* EditSource that drops the value fetched with the previous source.
EditSourceDropValue(stored, source_sh, source_cmd) ==
    IF IsSome(source_sh)
    THEN [stored EXCEPT !.source_command = source_sh, !.source_type = Some("sh"),
                        !.value = <<>>]
    ELSE IF IsSome(source_cmd)
         THEN [stored EXCEPT !.source_command = source_cmd,
                             !.source_type = Some("cmd"), !.value = <<>>]
         ELSE stored

\* EditSource that replaces the command and leaves the mode as it was.
EditSourceKeepMode(stored, source_sh, source_cmd) ==
    IF IsSome(source_sh)
    THEN [stored EXCEPT !.source_command = source_sh]
    ELSE IF IsSome(source_cmd)
         THEN [stored EXCEPT !.source_command = source_cmd]
         ELSE stored

\* cmd_edit, lines 198-204.
EditSource(stored, source_sh, source_cmd) ==
    IF IsSome(source_sh)
    THEN [stored EXCEPT !.source_command = source_sh, !.source_type = Some("sh")]
    ELSE IF IsSome(source_cmd)
         THEN [stored EXCEPT !.source_command = source_cmd,
                             !.source_type = Some("cmd")]
         ELSE stored

\* cmd_edit that creates the record when the pair has none.
CmdEditUpsert(kr, file, t, r) ==
    IF IsNone(r.ttl) /\ ~r.clear_ttl /\ IsNone(r.source_sh) /\ IsNone(r.source_cmd)
    THEN Outcome(kr, file, t, "NoModifications", None, None, "L182")
    ELSE
    LET found == GetSecret(kr, r.namespace, r.secret)
        existing == IF IsSome(found)
                    THEN found
                    ELSE Some([value |-> <<>>, created_at |-> t,
                               source_command |-> None, source_type |-> None,
                               ttl_seconds |-> None, expires_at |-> None])
        edited == EditTtl(Unwrap(existing), r.ttl, r.clear_ttl)
    IN
    IF IsNone(edited)
    THEN Outcome(kr, file, t, "panic", None, found, "L195")
    ELSE
    LET stored == EditSource(Unwrap(edited), r.source_sh, r.source_cmd)
        o == Outcome(SetSecret(kr, r.namespace, r.secret, stored), file, t,
                     "ok", None, found, "L208")
    IN  [o EXCEPT !.res.stored = Some(stored)]

\* cmd_edit without the test of lines 181-183: the record is written back
\* also when no change is named.
CmdEditUnchecked(kr, file, t, r) ==
    LET existing == GetSecret(kr, r.namespace, r.secret)
    IN
    IF IsNone(existing)
    THEN Outcome(kr, file, t, "NotFound", None, existing, "L185")
    ELSE
    LET edited == EditTtl(Unwrap(existing), r.ttl, r.clear_ttl)
    IN
    IF IsNone(edited)
    THEN Outcome(kr, file, t, "panic", None, existing, "L195")
    ELSE
    LET stored == EditSource(Unwrap(edited), r.source_sh, r.source_cmd)
        o == Outcome(SetSecret(kr, r.namespace, r.secret, stored), file, t,
                     "ok", None, existing, "L208")
    IN  [o EXCEPT !.res.stored = Some(stored)]

\* cmd_edit that applies a source change only when no TTL change is named.
CmdEditEither(kr, file, t, r) ==
    IF IsNone(r.ttl) /\ ~r.clear_ttl /\ IsNone(r.source_sh) /\ IsNone(r.source_cmd)
    THEN Outcome(kr, file, t, "NoModifications", None, None, "L182")
    ELSE
    LET existing == GetSecret(kr, r.namespace, r.secret)
    IN
    IF IsNone(existing)
    THEN Outcome(kr, file, t, "NotFound", None, existing, "L185")
    ELSE
    LET edited == EditTtl(Unwrap(existing), r.ttl, r.clear_ttl)
    IN
    IF IsNone(edited)
    THEN Outcome(kr, file, t, "panic", None, existing, "L195")
    ELSE
    LET stored == IF r.clear_ttl \/ IsSome(r.ttl)
                  THEN Unwrap(edited)
                  ELSE EditSource(Unwrap(edited), r.source_sh, r.source_cmd)
        o == Outcome(SetSecret(kr, r.namespace, r.secret, stored), file, t,
                     "ok", None, existing, "L208")
    IN  [o EXCEPT !.res.stored = Some(stored)]

\* cmd_edit that also stamps the pair's index entry with the time of the edit.
CmdEditStampIndex(kr, file, t, r) ==
    IF IsNone(r.ttl) /\ ~r.clear_ttl /\ IsNone(r.source_sh) /\ IsNone(r.source_cmd)
    THEN Outcome(kr, file, t, "NoModifications", None, None, "L182")
    ELSE
    LET existing == GetSecret(kr, r.namespace, r.secret)
    IN
    IF IsNone(existing)
    THEN Outcome(kr, file, t, "NotFound", None, existing, "L185")
    ELSE
    LET edited == EditTtl(Unwrap(existing), r.ttl, r.clear_ttl)
    IN
    IF IsNone(edited)
    THEN Outcome(kr, file, t, "panic", None, existing, "L195")
    ELSE
    LET stored == EditSource(Unwrap(edited), r.source_sh, r.source_cmd)
        idx == UpsertEntry(LoadIndex(file), r.namespace, r.secret, t)
        o == Outcome(SetSecret(kr, r.namespace, r.secret, stored),
                     SaveIndex(idx), t, "ok", None, existing, "L208")
    IN  [o EXCEPT !.res.stored = Some(stored)]

\* cmd_edit
CmdEdit(kr, file, t, r) ==
    IF IsNone(r.ttl) /\ ~r.clear_ttl /\ IsNone(r.source_sh) /\ IsNone(r.source_cmd)
    THEN Outcome(kr, file, t, "NoModifications", None, None, "L182")
    ELSE
    LET existing == GetSecret(kr, r.namespace, r.secret)
    IN
    IF IsNone(existing)
    THEN Outcome(kr, file, t, "NotFound", None, existing, "L185")
    ELSE
    LET edited == EditTtl(Unwrap(existing), r.ttl, r.clear_ttl)
    IN
    IF IsNone(edited)
    THEN Outcome(kr, file, t, "panic", None, existing, "L195")
    ELSE
    LET stored == EditSource(Unwrap(edited), r.source_sh, r.source_cmd)
        o == Outcome(SetSecret(kr, r.namespace, r.secret, stored), file, t,
                     "ok", None, existing, "L208")
    IN  [o EXCEPT !.res.stored = Some(stored)]

\* cmd_list
CmdList(kr, file, t, r) ==
    LET o == Outcome(kr, file, t, "ok", None, None, "L223")
    IN  [o EXCEPT !.res.rows = FilterEntries(LoadIndex(file), r.namespace)]

\* cmd_inspect
CmdInspect(kr, file, t, r) ==
    LET entry == GetSecret(kr, r.namespace, r.secret)
    IN  IF IsSome(entry)
        THEN LET o == Outcome(kr, file, t, "ok", None, entry, "L163")
             IN  [o EXCEPT !.res.json = Some(ToJson(Unwrap(entry)))]
        ELSE Outcome(kr, file, t, "NotFound", None, entry, "L165")

\* ------------------------------------------------------------ command lines

OptOf(S) == {None} \cup {Some(x) : x \in S}

\* The pairs the invocations of Spec address.
Targets == {<<"n1", "s1">>}

\* hemli get
GetArgs ==
    {r \in [op : {"get"}, namespace : Namespaces, secret : Names,
            force_refresh : BOOLEAN, no_refresh : BOOLEAN, no_store : BOOLEAN,
            ttl : OptOf(TTLs), source_sh : OptOf(Commands),
            source_cmd : OptOf(Commands)] :
        /\ <<r.namespace, r.secret>> \in Targets
        /\ ~(r.force_refresh /\ r.no_refresh)
        /\ ~(IsSome(r.source_sh) /\ IsSome(r.source_cmd))}

\* hemli edit
EditArgs ==
    {r \in [op : {"edit"}, namespace : Namespaces, secret : Names,
            ttl : OptOf(TTLs), clear_ttl : BOOLEAN,
            source_sh : OptOf(Commands), source_cmd : OptOf(Commands)] :
        /\ <<r.namespace, r.secret>> \in Targets
        /\ ~(IsSome(r.ttl) /\ r.clear_ttl)
        /\ ~(IsSome(r.source_sh) /\ IsSome(r.source_cmd))}

\* hemli delete
DeleteArgs ==
    {r \in [op : {"delete"}, namespace : Namespaces, secret : Names] :
        <<r.namespace, r.secret>> \in Targets}

\* hemli list
ListArgs == [op : {"list"}, namespace : OptOf(Namespaces)]

\* hemli inspect
InspectArgs ==
    {r \in [op : {"inspect"}, namespace : Namespaces, secret : Names] :
        <<r.namespace, r.secret>> \in Targets}

Envs == [proc : ProcOutcomes, ticks : FetchTicks]

\* -------------------------------------------------------------------- state

VARIABLES
    keyring,    \* the OS keyring: key -> Option of the stored JSON
    indexFile,  \* the index file: None while it does not exist
    now,        \* the wall clock
    pc,         \* "idle": no invocation running; "done": one has just ended
    req,        \* the command line of the invocation that has just ended
    res         \* what that invocation did and returned

vars == <<keyring, indexFile, now, pc, req, res>>

NoReq == [op |-> "none"]
NoRes == [status |-> "none"]

Init ==
    /\ keyring = [k \in KeyringKeys |-> None]
    /\ indexFile = None
    /\ now = 0
    /\ pc = "idle"
    /\ req = NoReq
    /\ res = NoRes

\* One invocation runs from its start to its end.
Finish(r, o) ==
    /\ o.now <= MaxTime
    /\ keyring' = o.keyring
    /\ indexFile' = o.indexFile
    /\ now' = o.now
    /\ pc' = "done"
    /\ req' = r
    /\ res' = o.res

Get ==
    /\ pc = "idle"
    /\ \E r \in GetArgs, env \in Envs :
          Finish(r, CmdGet(keyring, indexFile, now, r, env))

Delete ==
    /\ pc = "idle"
    /\ \E r \in DeleteArgs : Finish(r, CmdDelete(keyring, indexFile, now, r))

Edit ==
    /\ pc = "idle"
    /\ \E r \in EditArgs : Finish(r, CmdEdit(keyring, indexFile, now, r))

List ==
    /\ pc = "idle"
    /\ \E r \in ListArgs : Finish(r, CmdList(keyring, indexFile, now, r))

Inspect ==
    /\ pc = "idle"
    /\ \E r \in InspectArgs : Finish(r, CmdInspect(keyring, indexFile, now, r))

\* The process exits; the next invocation sees only the keyring, the index
\* file and the clock.
Exit ==
    /\ pc = "done"
    /\ pc' = "idle"
    /\ req' = NoReq
    /\ res' = NoRes
    /\ UNCHANGED <<keyring, indexFile, now>>

\* Time passes between invocations.
Tick ==
    /\ pc = "idle"
    /\ now < MaxTime
    /\ now' = now + 1
    /\ UNCHANGED <<keyring, indexFile, pc, req, res>>

Next == Get \/ Delete \/ Edit \/ List \/ Inspect \/ Exit \/ Tick

Spec == Init /\ [][Next]_vars

\* ------------------------------------------------------ the command line

\* Every get and edit command line clap can be given for the pair, also
\* those that name conflicting arguments.
GetCommandLines ==
    {r \in [op : {"get"}, namespace : Namespaces, secret : Names,
            force_refresh : BOOLEAN, no_refresh : BOOLEAN, no_store : BOOLEAN,
            ttl : OptOf(TTLs), source_sh : OptOf(Commands),
            source_cmd : OptOf(Commands)] :
        <<r.namespace, r.secret>> \in Targets}

EditCommandLines ==
    {r \in [op : {"edit"}, namespace : Namespaces, secret : Names,
            ttl : OptOf(TTLs), clear_ttl : BOOLEAN,
            source_sh : OptOf(Commands), source_cmd : OptOf(Commands)] :
        <<r.namespace, r.secret>> \in Targets}

\* The conflicts_with attributes without the one between the two sources.
CliAcceptsBothSources(r) ==
    /\ r.op = "get" => ~(r.force_refresh /\ r.no_refresh)
    /\ r.op = "edit" => ~(IsSome(r.ttl) /\ r.clear_ttl)

\* cli.rs, the conflicts_with attributes: Cli::parse accepts the command line.
CliAccepts(r) ==
    /\ r.op = "get" => ~(r.force_refresh /\ r.no_refresh)
    /\ ~(IsSome(r.source_sh) /\ IsSome(r.source_cmd))
    /\ r.op = "edit" => ~(IsSome(r.ttl) /\ r.clear_ttl)

\* main for a get or edit command line: Cli::parse (line 27) ends the
\* process with a usage error before the match when it does not accept it.
Main(kr, file, t, r, env) ==
    IF ~CliAccepts(r)
    THEN Outcome(kr, file, t, "usage", None, None, "L27")
    ELSE IF r.op = "get"
         THEN CmdGet(kr, file, t, r, env)
         ELSE CmdEdit(kr, file, t, r)

Run ==
    /\ pc = "idle"
    /\ \E r \in GetCommandLines \cup EditCommandLines, env \in Envs :
          Finish(r, Main(keyring, indexFile, now, r, env))

NextCli == Run \/ Delete \/ Exit \/ Tick

SpecCli == Init /\ [][NextCli]_vars

\* ------------------------------------------- an index write that fails

\* cmd_get in which set_secret (line 131) succeeds and load_index or
\* save_index (lines 134-136) returns an error, so that the `?` ends the
\* invocation before the value is printed; None when the invocation does
\* not get to line 134.
CmdGetIndexError(kr, file, t, r, env) ==
    LET o == CmdGet(kr, file, t, r, env)
    IN  IF o.res.at = "L142" /\ ~r.no_store
        THEN Some([o EXCEPT !.indexFile = file,
                            !.res.status = "Io",
                            !.res.stdout = None,
                            !.res.at = "L136"])
        ELSE None

\* cmd_delete in which delete_secret (line 146) succeeds and load_index or
\* save_index (lines 149-151) returns an error.
CmdDeleteIndexError(kr, file, t, r) ==
    [CmdDelete(kr, file, t, r) EXCEPT !.indexFile = file,
                                      !.res.status = "Io",
                                      !.res.at = "L151"]

GetIndexError ==
    /\ pc = "idle"
    /\ \E r \in GetArgs, env \in Envs :
          LET o == CmdGetIndexError(keyring, indexFile, now, r, env)
          IN  IsSome(o) /\ Finish(r, Unwrap(o))

DeleteIndexError ==
    /\ pc = "idle"
    /\ \E r \in DeleteArgs :
          Finish(r, CmdDeleteIndexError(keyring, indexFile, now, r))

NextPartial ==
    Get \/ Delete \/ Exit \/ Tick \/ GetIndexError \/ DeleteIndexError

SpecPartial == Init /\ [][NextPartial]_vars

\* ------------------------------------------------- the index on its own

\* The pairs the calls on the index name: two names in one namespace and
\* one name in two namespaces.
IndexPairs == {<<"n1", "s1">>, <<"n1", "s2">>, <<"n2", "s1">>}

\* The index is empty; res keeps the index before the last call (before),
\* the pairs it holds in the order in which they were first inserted
\* (inserted) and what the last filter returned (rows).
InitIndex ==
    /\ keyring = [k \in KeyringKeys |-> None]
    /\ indexFile = None
    /\ now = 0
    /\ pc = "index"
    /\ req = NoReq
    /\ res = [before |-> <<>>, inserted |-> <<>>, rows |-> <<>>]

\* load_index, upsert_entry, save_index
UpsertCall ==
    \E p \in IndexPairs, c \in 0..MaxTime :
        LET idx == LoadIndex(indexFile)
        IN  /\ indexFile' = SaveIndex(UpsertEntry(idx, p[1], p[2], c))
            /\ req' = [op |-> "upsert", namespace |-> p[1], secret |-> p[2],
                        created_at |-> c]
            /\ res' = [before |-> idx,
                        inserted |-> IF \E i \in 1..Len(res.inserted) :
                                            res.inserted[i] = p
                                     THEN res.inserted
                                     ELSE Append(res.inserted, p),
                        rows |-> <<>>]
            /\ UNCHANGED <<keyring, now, pc>>

\* load_index, remove_entry, save_index
RemoveCall ==
    \E p \in IndexPairs :
        LET idx == LoadIndex(indexFile)
        IN  /\ indexFile' = SaveIndex(RemoveEntry(idx, p[1], p[2]))
            /\ req' = [op |-> "remove", namespace |-> p[1], secret |-> p[2]]
            /\ res' = [before |-> idx,
                        inserted |-> SelectSeq(res.inserted, LAMBDA q : q # p),
                        rows |-> <<>>]
            /\ UNCHANGED <<keyring, now, pc>>

\* load_index, filter_entries
FilterCall ==
    \E ns \in OptOf(Namespaces) :
        LET idx == LoadIndex(indexFile)
        IN  /\ req' = [op |-> "filter", namespace |-> ns]
            /\ res' = [before |-> idx, inserted |-> res.inserted,
                        rows |-> FilterEntries(idx, ns)]
            /\ UNCHANGED <<keyring, indexFile, now, pc>>

NextIndex == UpsertCall \/ RemoveCall \/ FilterCall

SpecIndex == InitIndex /\ [][NextIndex]_vars

\* ------------------------------------------------------- several pairs

\* Invocations on three pairs (IndexPairs), with fewer flags than in Spec.
PairGetArgs ==
    {r \in [op : {"get"}, namespace : Namespaces, secret : Names,
            force_refresh : BOOLEAN, no_refresh : {FALSE}, no_store : BOOLEAN,
            ttl : {None}, source_sh : OptOf({<<"x">>}), source_cmd : {None}] :
        <<r.namespace, r.secret>> \in IndexPairs}

PairEditArgs ==
    {r \in [op : {"edit"}, namespace : Namespaces, secret : Names,
            ttl : {None}, clear_ttl : {FALSE},
            source_sh : {None}, source_cmd : OptOf({<<"x">>})] :
        <<r.namespace, r.secret>> \in IndexPairs}

PairDeleteArgs ==
    {r \in [op : {"delete"}, namespace : Namespaces, secret : Names] :
        <<r.namespace, r.secret>> \in IndexPairs}

\* The source prints v and takes no time.
PairEnvs == {[proc |-> [spawned |-> TRUE, success |-> TRUE, stdout |-> <<"v">>],
              ticks |-> 0]}

PairGet ==
    /\ pc = "idle"
    /\ \E r \in PairGetArgs, env \in PairEnvs :
          Finish(r, CmdGet(keyring, indexFile, now, r, env))

PairEdit ==
    /\ pc = "idle"
    /\ \E r \in PairEditArgs : Finish(r, CmdEdit(keyring, indexFile, now, r))

PairDelete ==
    /\ pc = "idle"
    /\ \E r \in PairDeleteArgs :
          Finish(r, CmdDelete(keyring, indexFile, now, r))

NextPairs == PairGet \/ PairEdit \/ PairDelete \/ Exit \/ Tick

SpecPairs == Init /\ [][NextPairs]_vars

\* ------------------------------------------------ concurrent invocations

\* Two invocations may run at the same time.  Each is a sequence of accesses
\* to the keyring and to the index file; an access is one step, and the
\* steps of the two interleave.  In this specification pc and req are
\* functions of the process, and res holds what each process has in memory
\* (local) and, for every pair, what the last keyring write for it wrote
\* (last).  Time does not pass here; the source of a get prints v for
\* process 1 and w for process 2.
Procs == {1, 2}

RacePairs == {<<"n1", "s1">>, <<"n2", "s1">>}

RaceGetArgs ==
    {r \in [op : {"get"}, namespace : Namespaces, secret : Names,
            force_refresh : {TRUE}, no_refresh : {FALSE}, no_store : {FALSE},
            ttl : {None}, source_sh : {Some(<<"x">>)}, source_cmd : {None}] :
        <<r.namespace, r.secret>> \in RacePairs}

RaceEditArgs ==
    {r \in [op : {"edit"}, namespace : Namespaces, secret : Names,
            ttl : {None}, clear_ttl : {FALSE},
            source_sh : {None}, source_cmd : {Some(<<"x">>)}] :
        <<r.namespace, r.secret>> \in RacePairs}

RaceDeleteArgs ==
    {r \in [op : {"delete"}, namespace : Namespaces, secret : Names] :
        <<r.namespace, r.secret>> \in RacePairs}

\* The source of a get of process p exits zero.
RaceProcs(p) ==
    {[spawned |-> TRUE, success |-> TRUE,
      stdout |-> IF p = 1 THEN <<"v">> ELSE <<"w">>]}

\* The memory of a process that runs no invocation.
NoLocal == [existing |-> None, stored |-> None, idx |-> <<>>, status |-> "none"]

InitRace ==
    /\ keyring = [k \in KeyringKeys |-> None]
    /\ indexFile = None
    /\ now = 0
    /\ pc = [p \in Procs |-> "idle"]
    /\ req = [p \in Procs |-> NoReq]
    /\ res = [local |-> [p \in Procs |-> NoLocal],
              last |-> [q \in RacePairs |-> None]]

\* Process p moves to label l with memory loc; the rest of res stays.
Goto(p, l, loc) ==
    /\ pc' = [pc EXCEPT ![p] = l]
    /\ res' = [res EXCEPT !.local[p] = loc]

\* Process p writes the keyring entry of its pair: json, or None for a
\* delete.
Wrote(p, l, loc, json) ==
    LET q == <<req[p].namespace, req[p].secret>>
    IN  /\ pc' = [pc EXCEPT ![p] = l]
        /\ res' = [res EXCEPT !.local[p] = loc, !.last[q] = json]

\* cmd_get line 80 to 120 of a get that has to refresh and has a source:
\* the record is read.
RaceGetRead(p) ==
    /\ pc[p] = "idle"
    /\ \E r \in RaceGetArgs :
          LET existing == GetSecret(keyring, r.namespace, r.secret)
          IN  /\ NeedsRefresh(r.force_refresh, existing, now)
              /\ IsSome(ResolveSource(r.source_sh, r.source_cmd, existing))
              /\ req' = [req EXCEPT ![p] = r]
              /\ Goto(p, "L123", [NoLocal EXCEPT !.existing = existing])
    /\ UNCHANGED <<keyring, indexFile, now>>

\* cmd_get lines 123 to 128: the source runs and the record is built.
RaceGetFetch(p) ==
    /\ pc[p] = "L123"
    /\ \E proc \in RaceProcs(p) :
          LET r == req[p]
              loc == res.local[p]
              source == Unwrap(ResolveSource(r.source_sh, r.source_cmd, loc.existing))
              fetched == FetchSecret(source[1], source[2], proc)
              built == StoredSecretNew(fetched.value, Some(source[1]),
                                       Some(source[2]),
                                       EffectiveTtl(r.ttl, loc.existing), now)
          IN  /\ fetched.status = "ok"
              /\ IsSome(built)
              /\ Goto(p, "L131", [loc EXCEPT !.stored = built])
    /\ UNCHANGED <<keyring, indexFile, now, req>>

\* cmd_get line 131: set_secret.
RaceGetStore(p) ==
    /\ pc[p] = "L131"
    /\ LET r == req[p]
           loc == res.local[p]
       IN  /\ keyring' = SetSecret(keyring, r.namespace, r.secret, Unwrap(loc.stored))
           /\ Wrote(p, "L134", loc, Some(ToJson(Unwrap(loc.stored))))
    /\ UNCHANGED <<indexFile, now, req>>

\* cmd_get line 134, cmd_delete line 149: load_index.
RaceLoadIndex(p) ==
    /\ pc[p] \in {"L134", "L149"}
    /\ Goto(p, IF pc[p] = "L134" THEN "L136" ELSE "L151",
            [res.local[p] EXCEPT !.idx = LoadIndex(indexFile)])
    /\ UNCHANGED <<keyring, indexFile, now, req>>

\* GetSaveIndex that loads the file again before it upserts.
GetSaveIndexReload(file, loc, r) ==
    SaveIndex(UpsertEntry(LoadIndex(file), r.namespace, r.secret,
                          Unwrap(loc.stored).created_at))

\* cmd_get lines 135-136: the file save_index writes when the file holds
\* `file`; fs::write replaces whatever it holds.
GetSaveIndex(file, loc, r) ==
    SaveIndex(UpsertEntry(loc.idx, r.namespace, r.secret,
                          Unwrap(loc.stored).created_at))

\* cmd_delete lines 150-151: the file save_index writes.
DeleteSaveIndex(file, loc, r) ==
    SaveIndex(RemoveEntry(loc.idx, r.namespace, r.secret))

\* cmd_get lines 135 to 142, cmd_delete lines 150 to 154: the index is
\* saved and the invocation ends.
RaceSaveIndex(p) ==
    /\ pc[p] \in {"L136", "L151"}
    /\ indexFile' = IF pc[p] = "L136"
                    THEN GetSaveIndex(indexFile, res.local[p], req[p])
                    ELSE DeleteSaveIndex(indexFile, res.local[p], req[p])
    /\ Goto(p, "done", [res.local[p] EXCEPT !.status = "ok"])
    /\ UNCHANGED <<keyring, now, req>>

\* cmd_edit lines 181 to 204: the record is read and edited in memory.
RaceEditRead(p) ==
    /\ pc[p] = "idle"
    /\ \E r \in RaceEditArgs :
          LET existing == GetSecret(keyring, r.namespace, r.secret)
              edited == IF IsSome(existing)
                        THEN EditTtl(Unwrap(existing), r.ttl, r.clear_ttl)
                        ELSE None
          IN  /\ req' = [req EXCEPT ![p] = r]
              /\ IF IsNone(existing)
                 THEN Goto(p, "done", [NoLocal EXCEPT !.status = "NotFound"])
                 ELSE IF IsNone(edited)
                 THEN Goto(p, "done", [NoLocal EXCEPT !.existing = existing,
                                                      !.status = "panic"])
                 ELSE Goto(p, "L206",
                           [NoLocal EXCEPT
                              !.existing = existing,
                              !.stored = Some(EditSource(Unwrap(edited), r.source_sh,
                                                         r.source_cmd))])
    /\ UNCHANGED <<keyring, indexFile, now>>

\* cmd_edit lines 206 to 208: set_secret, and the invocation ends.
RaceEditStore(p) ==
    /\ pc[p] = "L206"
    /\ LET r == req[p]
           loc == res.local[p]
       IN  /\ keyring' = SetSecret(keyring, r.namespace, r.secret, Unwrap(loc.stored))
           /\ Wrote(p, "done", [loc EXCEPT !.status = "ok"],
                    Some(ToJson(Unwrap(loc.stored))))
    /\ UNCHANGED <<indexFile, now, req>>

\* cmd_delete line 146: delete_secret.
RaceDeleteStore(p) ==
    /\ pc[p] = "idle"
    /\ \E r \in RaceDeleteArgs :
          /\ req' = [req EXCEPT ![p] = r]
          /\ keyring' = DeleteSecret(keyring, r.namespace, r.secret)
          /\ pc' = [pc EXCEPT ![p] = "L149"]
          /\ res' = [res EXCEPT !.local[p] = NoLocal,
                                 !.last[<<r.namespace, r.secret>>] = None]
    /\ UNCHANGED <<indexFile, now>>

\* The process of an invocation that has ended exits.
RaceExit(p) ==
    /\ pc[p] = "done"
    /\ req' = [req EXCEPT ![p] = NoReq]
    /\ pc' = [pc EXCEPT ![p] = "idle"]
    /\ res' = [res EXCEPT !.local[p] = NoLocal]
    /\ UNCHANGED <<keyring, indexFile, now>>

NextRace ==
    \E p \in Procs :
          \/ RaceGetRead(p) \/ RaceGetFetch(p) \/ RaceGetStore(p)
          \/ RaceLoadIndex(p) \/ RaceSaveIndex(p)
          \/ RaceEditRead(p) \/ RaceEditStore(p)
          \/ RaceDeleteStore(p)
          \/ RaceExit(p)

SpecRace == InitRace /\ [][NextRace]_vars

\* ------------------------------------------- records without a source

\* A record as serde reads it from an entry that has no source_command and
\* no source_type (a missing Option field deserializes to None): the record
\* that StoredSecret::new(value, None, None, ttl) builds, as the unit tests
\* of model.rs do.
SourcelessRecords ==
    {Unwrap(StoredSecretNew(<<"u">>, None, None, ttl, 0)) : ttl \in {None, Some(0)}}

\* The keyring may already hold such a record for the pair when the first
\* invocation starts.
InitSourceless ==
    /\ \E e \in OptOf(SourcelessRecords) :
          keyring = [k \in KeyringKeys |->
                        IF k = <<ServiceName("n1"), "s1">> /\ IsSome(e)
                        THEN Some(ToJson(Unwrap(e)))
                        ELSE None]
    /\ indexFile = None
    /\ now = 0
    /\ pc = "idle"
    /\ req = NoReq
    /\ res = NoRes

SpecSourceless == InitSourceless /\ [][Next]_vars

\* ------------------------------------------------- is_expired on its own

\* TTLs a record may be built with; ttl_seconds is an i64 and may be negative.
ProbeTtls == OptOf(-2..2)

\* The records StoredSecret::new builds at the clock readings of the model,
\* as the unit tests of model.rs build them.
ProbeRecords ==
    {Unwrap(b) : b \in {StoredSecretNew(<<"v">>, None, None, ttl, c) :
                            ttl \in ProbeTtls, c \in 0..MaxTime} \ {None}}

\* A record and a clock reading are given.
InitExpiry ==
    /\ keyring = [k \in KeyringKeys |-> None]
    /\ indexFile = None
    /\ now \in TsMin..TsMax
    /\ pc = "idle"
    /\ req \in [op : {"is_expired"}, secret : ProbeRecords]
    /\ res = NoRes

\* is_expired is applied to the record at the clock reading.
ApplyIsExpired ==
    /\ pc = "idle"
    /\ pc' = "done"
    /\ res' = [status |-> "ok", expired |-> IsExpired(req.secret, now)]
    /\ UNCHANGED <<keyring, indexFile, now, req>>

NextExpiry == ApplyIsExpired

SpecExpiry == InitExpiry /\ [][NextExpiry]_vars

\* ------------------------------------------------------------------ claims

\* A step in which a get invocation runs.
GetStep == pc = "idle" /\ pc' = "done" /\ req'.op = "get"

\* The record the keyring holds for the pair of the invocation, before it runs.
Before == GetSecret(keyring, req'.namespace, req'.secret)

\* The record the keyring holds for the pair of the invocation, after it ran.
After == GetSecret(keyring', req'.namespace, req'.secret)

\* The record s has passed its expiry at time t.
PastExpiry(s, t) == IsSome(s.expires_at) /\ t > Unwrap(s.expires_at)

\* A get invocation with these flags, before state and clock has to refresh.
MustRefresh(r, e, t) ==
    /\ ~r.no_refresh
    /\ (r.force_refresh \/ IsNone(e) \/ PastExpiry(Unwrap(e), t))

HasOverride(r) == IsSome(r.source_sh) \/ IsSome(r.source_cmd)

Remembers(e) ==
    /\ IsSome(e)
    /\ IsSome(Unwrap(e).source_command)
    /\ IsSome(Unwrap(e).source_type)

C1_Step ==
    (/\ GetStep
     /\ ~req'.no_refresh
     /\ ~req'.force_refresh
     /\ IsSome(Before)
     /\ ~PastExpiry(Unwrap(Before), now))
    => /\ res'.status = "ok"
       /\ res'.stdout = Some(Unwrap(Before).value)
       /\ res'.calls = <<>>
       /\ res'.procs = 0
       /\ keyring' = keyring
       /\ indexFile' = indexFile

\* C1: a get without --no-refresh and without --force-refresh on a pair whose
\* stored record exists and is not expired prints the stored value, hands
\* nothing to the source resolver and leaves the keyring and the index file
\* exactly as they were, whatever --ttl, source override or --no-store it
\* carries.
C1_CacheHit == [][C1_Step]_vars

\* A cache hit on a record with a TTL, some time after it was created, by an
\* invocation that carries --no-store, a TTL and a source override.
C1_Witness ==
    /\ pc = "done"
    /\ req.op = "get"
    /\ ~req.no_refresh
    /\ ~req.force_refresh
    /\ req.no_store
    /\ IsSome(req.ttl)
    /\ IsSome(req.source_sh)
    /\ res.at = "L105"
    /\ IsSome(Unwrap(res.existing).ttl_seconds)
    /\ now > Unwrap(res.existing).created_at

C2_Step ==
    GetStep
    => /\ Len(res'.calls) <= 1
       /\ res'.procs <= Len(res'.calls)
       /\ (Len(res'.calls) = 1)
            <=> (/\ MustRefresh(req', Before, now)
                 /\ (HasOverride(req') \/ Remembers(Before)))

\* C2: within one get the source resolver is called at most once, and it is
\* called exactly when --no-refresh is not set, and (--force-refresh is set,
\* or no record exists, or the record is expired at the time of the request),
\* and a source is available from an override or from the record.
C2_RefreshDecision == [][C2_Step]_vars

\* A get without --force-refresh and without override that fetched because the
\* stored record had expired.
C2_Witness ==
    /\ pc = "done"
    /\ req.op = "get"
    /\ ~req.force_refresh
    /\ ~HasOverride(req)
    /\ IsSome(res.existing)
    /\ Len(res.calls) = 1
    /\ res.procs = 1

C3_Step ==
    (GetStep /\ req'.no_refresh)
    => /\ IF IsSome(Before)
          THEN res'.status = "ok" /\ res'.stdout = Some(Unwrap(Before).value)
          ELSE res'.status = "NotFound" /\ res'.stdout = None
       /\ res'.calls = <<>>
       /\ res'.procs = 0
       /\ keyring' = keyring
       /\ indexFile' = indexFile

\* C3: a get with --no-refresh prints the stored value when a record exists,
\* even an expired one, and fails with NotFound when none exists; either way
\* the source resolver is not called and neither the keyring nor the index
\* file is written.
C3_NoRefresh == [][C3_Step]_vars

\* A get with --no-refresh served an expired record.
C3_Witness ==
    /\ pc = "done"
    /\ req.op = "get"
    /\ req.no_refresh
    /\ res.status = "ok"
    /\ IsSome(res.existing)
    /\ PastExpiry(Unwrap(res.existing), now)
    /\ res.stdout = Some(Unwrap(res.existing).value)

C4_Step ==
    (GetStep /\ MustRefresh(req', Before, now))
    => /\ IsSome(req'.source_sh)
            => res'.calls = << <<Unwrap(req'.source_sh), "sh">> >>
       /\ (IsNone(req'.source_sh) /\ IsSome(req'.source_cmd))
            => res'.calls = << <<Unwrap(req'.source_cmd), "cmd">> >>
       /\ (~HasOverride(req') /\ Remembers(Before))
            => res'.calls = << <<Unwrap(Unwrap(Before).source_command),
                                 Unwrap(Unwrap(Before).source_type)>> >>

\* C4: when a get has to refresh, the command and mode handed to the source
\* resolver are those of the override if one is given (--source-sh gives mode
\* sh, --source-cmd gives mode cmd), even when the record remembers another
\* source; the remembered source_command and source_type are used only when
\* no override is given.
C4_SourcePrecedence == [][C4_Step]_vars

\* A refresh with a --source-cmd override of a record that remembers another
\* command and the other mode.
C4_Witness ==
    /\ pc = "done"
    /\ req.op = "get"
    /\ IsSome(req.source_cmd)
    /\ Remembers(res.existing)
    /\ Unwrap(res.existing).source_command # req.source_cmd
    /\ Unwrap(res.existing).source_type = Some("sh")
    /\ res.calls = << <<Unwrap(req.source_cmd), "cmd">> >>
    /\ res.status = "ok"

\* A get that fetched a value and returned it.
Refreshed == GetStep /\ res'.status = "ok" /\ Len(res'.calls) = 1

C5_Step ==
    Refreshed
    => /\ IsSome(res'.stored)
       /\ Unwrap(res'.stored).ttl_seconds =
            (IF IsSome(req'.ttl) THEN req'.ttl
             ELSE IF IsSome(Before) THEN Unwrap(Before).ttl_seconds
             ELSE None)
       /\ ~req'.no_store => After = res'.stored
       /\ (~req'.no_store /\ IsNone(req'.ttl) /\ IsSome(Before))
            => Unwrap(After).ttl_seconds = Unwrap(Before).ttl_seconds

\* C5: the record built by a successful refresh has ttl_seconds equal to the
\* --ttl of the request if one is given, otherwise to the ttl_seconds of the
\* record that existed before the refresh, otherwise absent; a refresh
\* without --ttl carries the stored TTL forward unchanged.
C5_StickyTtl == [][C5_Step]_vars

\* A refresh without --ttl replaced a record that had a TTL and kept that TTL.
C5_Witness ==
    /\ pc = "done"
    /\ req.op = "get"
    /\ IsNone(req.ttl)
    /\ ~req.no_store
    /\ res.status = "ok"
    /\ Len(res.calls) = 1
    /\ IsSome(res.existing)
    /\ IsSome(Unwrap(res.existing).ttl_seconds)
    /\ Unwrap(res.stored).ttl_seconds = Unwrap(res.existing).ttl_seconds
    /\ Unwrap(res.stored).created_at > Unwrap(res.existing).created_at

\* What the source process of a following invocation may do.
FollowEnvs == [proc : ProcOutcomes, ticks : {0}]

NoRefreshArgs == {q \in GetArgs : q.no_refresh}

PlainArgs == {q \in GetArgs : ~q.no_refresh /\ ~HasOverride(q)}

\* The get invocations that follow r on the same pair with --no-refresh.
NoRefreshAfter(r) ==
    {q \in NoRefreshArgs : q.namespace = r.namespace /\ q.secret = r.secret}

\* The get invocations that follow r on the same pair without --no-refresh
\* and without source override.
PlainAfter(r) ==
    {q \in PlainArgs : q.namespace = r.namespace /\ q.secret = r.secret}

\* The record the keyring holds for the pair of the invocation that has just
\* ended.
Held == GetSecret(keyring, req.namespace, req.secret)

\* C6: after a get that refreshes successfully without --no-store, the stored
\* record of the pair has the value just fetched, which is also the value
\* printed, and created_at equal to the time of the refresh, not the
\* created_at of the record it replaces; a following get with --no-refresh
\* prints that new value.
C6_RefreshIsNewFetch ==
    (/\ pc = "done"
     /\ req.op = "get"
     /\ res.status = "ok"
     /\ Len(res.calls) = 1
     /\ ~req.no_store)
    => /\ IsSome(res.fetched)
       /\ res.stdout = res.fetched
       /\ IsSome(Held)
       /\ Unwrap(Held).value = Unwrap(res.fetched)
       /\ Unwrap(Held).created_at = now
       /\ \A q \in NoRefreshAfter(req), env \in FollowEnvs :
             LET o == CmdGet(keyring, indexFile, now, q, env)
             IN  o.res.status = "ok" /\ o.res.stdout = res.fetched

\* A refresh replaced an older record that held another value.
C6_Witness ==
    /\ pc = "done"
    /\ req.op = "get"
    /\ ~req.no_store
    /\ res.status = "ok"
    /\ Len(res.calls) = 1
    /\ IsSome(res.existing)
    /\ Unwrap(res.existing).created_at < now
    /\ Unwrap(res.existing).value # Unwrap(res.fetched)
    /\ Held = res.stored
    /\ Unwrap(res.stored).created_at = now

C7_Step ==
    /\ (Refreshed /\ ~req'.no_store)
         => /\ Remembers(After)
            /\ res'.calls = << <<Unwrap(Unwrap(After).source_command),
                                 Unwrap(Unwrap(After).source_type)>> >>
    /\ (/\ GetStep
        /\ ~req'.no_refresh
        /\ ~HasOverride(req')
        /\ IsSome(Before)
        /\ PastExpiry(Unwrap(Before), now))
         => /\ Remembers(Before)
            /\ res'.calls = << <<Unwrap(Unwrap(Before).source_command),
                                 Unwrap(Unwrap(Before).source_type)>> >>
            /\ res'.status # "NoSource"

\* C7: a get that stores a record stores with it the command and the mode it
\* fetched with, and a later get for the same pair without source override
\* that finds the record expired hands that stored command, in that stored
\* mode, to the source resolver and does not fail with NoSource.
C7_RememberedSource == [][C7_Step]_vars

\* A get without override and without --force-refresh found the record
\* expired and fetched again with the remembered command.
C7_Witness ==
    /\ pc = "done"
    /\ req.op = "get"
    /\ ~req.force_refresh
    /\ ~req.no_refresh
    /\ ~HasOverride(req)
    /\ IsSome(res.existing)
    /\ PastExpiry(Unwrap(res.existing), now)
    /\ res.calls = << <<Unwrap(Unwrap(res.existing).source_command),
                        Unwrap(Unwrap(res.existing).source_type)>> >>
    /\ res.status = "ok"
    /\ Unwrap(res.stored).source_command = Unwrap(res.existing).source_command

RowsOf(o, namespace, secret) ==
    {i \in 1..Len(o.res.rows) : Matches(o.res.rows[i], namespace, secret)}

C8_Step ==
    (Refreshed /\ req'.no_store)
    => /\ IsSome(res'.fetched)
       /\ res'.stdout = res'.fetched
       /\ keyring' = keyring
       /\ indexFile' = indexFile
       /\ IsNone(Before)
            => /\ RowsOf(CmdList(keyring', indexFile', now',
                                 [op |-> "list", namespace |-> Some(req'.namespace)]),
                         req'.namespace, req'.secret) = {}
               /\ \A q \in NoRefreshAfter(req'), env \in FollowEnvs :
                     CmdGet(keyring', indexFile', now', q, env).res.status = "NotFound"
               /\ \A q \in PlainAfter(req'), env \in FollowEnvs :
                     CmdGet(keyring', indexFile', now', q, env).res.status = "NoSource"

\* C8: a get with --no-store that refreshes prints the fetched value and
\* leaves the keyring and the index file exactly as they were; when the pair
\* had no record, it is then absent from a following list of its namespace, a
\* following get with --no-refresh fails with NotFound, and a following get
\* without source override fails with NoSource.
C8_NoStore == [][C8_Step]_vars

\* A get with --no-store fetched a value for a pair that has no record, while
\* the index file does not exist.
C8_Witness ==
    /\ pc = "done"
    /\ req.op = "get"
    /\ req.no_store
    /\ res.status = "ok"
    /\ Len(res.calls) = 1
    /\ IsSome(res.stdout)
    /\ IsNone(res.existing)
    /\ IsNone(GetSecret(keyring, req.namespace, req.secret))
    /\ IsNone(indexFile)

\* The records the keyring holds.
StoredRecords ==
    {FromJson(Unwrap(keyring[k])) : k \in {k \in KeyringKeys : IsSome(keyring[k])}}

\* C9: every record in the keyring has expires_at present if and only if
\* ttl_seconds is present, and then expires_at = created_at + ttl_seconds.
C9_ExpiryInvariant ==
    \A s \in StoredRecords :
        /\ IsSome(s.expires_at) <=> IsSome(s.ttl_seconds)
        /\ IsSome(s.ttl_seconds)
             => Unwrap(s.expires_at) = s.created_at + Unwrap(s.ttl_seconds)

\* An edit gave a new TTL to a record created earlier by a get with another
\* TTL.
C9_Witness ==
    /\ pc = "done"
    /\ req.op = "edit"
    /\ IsSome(req.ttl)
    /\ res.status = "ok"
    /\ Unwrap(res.existing).ttl_seconds # req.ttl
    /\ IsSome(Unwrap(res.existing).ttl_seconds)
    /\ Unwrap(res.existing).created_at < now
    /\ \E s \in StoredRecords :
          /\ s.ttl_seconds = req.ttl
          /\ s.expires_at = Some(s.created_at + Unwrap(req.ttl))

\* C10: is_expired is false at every time for a record without expires_at;
\* for a record with ttl_seconds = t it is true exactly when the clock is
\* strictly greater than created_at + t, so false at created_at + t and true
\* at created_at + t + 1.
C10_IsExpired ==
    (pc = "done" /\ req.op = "is_expired")
    => /\ IsNone(req.secret.expires_at) => ~res.expired
       /\ IsSome(req.secret.ttl_seconds)
            => (res.expired
                  <=> now > req.secret.created_at + Unwrap(req.secret.ttl_seconds))
       /\ (/\ IsSome(req.secret.ttl_seconds)
           /\ now = req.secret.created_at + Unwrap(req.secret.ttl_seconds))
            => ~res.expired
       /\ (/\ IsSome(req.secret.ttl_seconds)
           /\ now = req.secret.created_at + Unwrap(req.secret.ttl_seconds) + 1)
            => res.expired

\* is_expired answered false for a record with a positive TTL at exactly
\* created_at + ttl_seconds.
C10_Witness ==
    /\ pc = "done"
    /\ req.op = "is_expired"
    /\ IsSome(req.secret.ttl_seconds)
    /\ Unwrap(req.secret.ttl_seconds) > 0
    /\ now = req.secret.created_at + Unwrap(req.secret.ttl_seconds)
    /\ ~res.expired

\* The get invocations that follow r on the same pair without --force-refresh
\* and without --no-refresh.
UnforcedAfter(r) ==
    {q \in GetArgs : /\ ~q.force_refresh
                     /\ ~q.no_refresh
                     /\ q.namespace = r.namespace
                     /\ q.secret = r.secret}

\* The clock readings of an invocation that starts after the one that has
\* just ended has read the clock.
LaterReadings == (now + 1)..MaxTime

\* C11: after a get that stores a record with ttl 0, a following get for the
\* same pair without --force-refresh and without --no-refresh, which reads
\* the clock later than the first one did, hands a command to the source
\* resolver again instead of serving the record: the stored command when it
\* carries no override, and then a source process is started whenever one
\* can be.
C11_TtlZero ==
    (/\ pc = "done"
     /\ req.op = "get"
     /\ res.status = "ok"
     /\ ~req.no_store
     /\ IsSome(res.stored)
     /\ Unwrap(res.stored).ttl_seconds = Some(0))
    => /\ Held = res.stored
       /\ \A q \in UnforcedAfter(req), env \in FollowEnvs, t \in LaterReadings :
             LET o == CmdGet(keyring, indexFile, t, q, env)
             IN  /\ Len(o.res.calls) = 1
                 /\ o.res.at # "L105"
                 /\ ~HasOverride(q)
                      => /\ o.res.calls[1] =
                              <<Unwrap(Unwrap(res.stored).source_command),
                                Unwrap(Unwrap(res.stored).source_type)>>
                         /\ (o.res.procs = 1) <=> env.proc.spawned

\* A get stored a record with ttl 0 while the clock can still advance, and
\* at the clock reading of its creation the record is not yet expired.
C11_Witness ==
    /\ pc = "done"
    /\ req.op = "get"
    /\ res.status = "ok"
    /\ ~req.no_store
    /\ req.ttl = Some(0)
    /\ Held = res.stored
    /\ Unwrap(Held).expires_at = Some(now)
    /\ LaterReadings # {}
    /\ \E q \in PlainAfter(req), env \in FollowEnvs :
          /\ ~q.force_refresh
          /\ CmdGet(keyring, indexFile, now + 1, q, env).res.status = "ok"
          /\ CmdGet(keyring, indexFile, now + 1, q, env).res.procs = 1

C12_Step ==
    (/\ GetStep
     /\ MustRefresh(req', Before, now)
     /\ ~HasOverride(req')
     /\ ~Remembers(Before))
    => /\ res'.status = "NoSource"
       /\ res'.stdout = None
       /\ res'.calls = <<>>
       /\ res'.procs = 0
       /\ keyring' = keyring
       /\ indexFile' = indexFile

\* C12: a get that has to refresh (no --no-refresh, and --force-refresh, no
\* record or an expired record), carries neither --source-sh nor
\* --source-cmd, and finds no record or a record without source_command and
\* source_type fails with NoSource: nothing is handed to the source
\* resolver, no process is started, nothing is printed even when the record
\* holds a value, and the keyring and the index file are left as they were.
C12_NoSource == [][C12_Step]_vars

\* A get found an expired record that has no source, failed with NoSource
\* and printed nothing; the record is still in the keyring.
C12_Witness ==
    /\ pc = "done"
    /\ req.op = "get"
    /\ ~req.force_refresh
    /\ res.status = "NoSource"
    /\ IsSome(res.existing)
    /\ PastExpiry(Unwrap(res.existing), now)
    /\ IsNone(Unwrap(res.existing).source_command)
    /\ res.stdout = None
    /\ Held = res.existing

\* The command is one that split_whitespace leaves no part of.
Blank(command) == \A i \in 1..Len(command) : command[i] \in Whitespace

\* The get that has just run handed a command to the source resolver and the
\* source failed: the process it started ended with a non-zero status and
\* gave no value, or the command was an empty direct-mode command.
SourceFailure ==
    /\ GetStep
    /\ Len(res'.calls) = 1
    /\ IsNone(res'.fetched)
    /\ \/ res'.procs = 1
       \/ res'.calls[1][2] = "cmd" /\ Blank(res'.calls[1][1])

C13_Step ==
    SourceFailure
    => /\ res'.status = "SourceFailed"
       /\ res'.stdout = None
       /\ keyring' = keyring
       /\ indexFile' = indexFile
       /\ After = Before

\* C13: when the source handed to the resolver by a refreshing get fails
\* (the process exits non-zero, or the direct-mode command is empty), the
\* get fails with SourceFailed and prints nothing, also when the keyring
\* holds an expired record or a record that --force-refresh passed over,
\* and the keyring and the index file are left exactly as they were.
C13_SourceFailed == [][C13_Step]_vars

\* The source process of a get exited non-zero while the keyring held an
\* expired record: nothing was printed and the record is still there.
C13_Witness ==
    /\ pc = "done"
    /\ req.op = "get"
    /\ ~req.force_refresh
    /\ res.status = "SourceFailed"
    /\ res.procs = 1
    /\ IsSome(res.existing)
    /\ PastExpiry(Unwrap(res.existing), now)
    /\ res.stdout = None
    /\ Held = res.existing
    /\ IsSome(indexFile)

\* A step in which an edit invocation runs.
EditStep == pc = "idle" /\ pc' = "done" /\ req'.op = "edit"

\* The edit names a change: a new TTL, --clear-ttl, or a new source.
Modifies(r) ==
    IsSome(r.ttl) \/ r.clear_ttl \/ IsSome(r.source_sh) \/ IsSome(r.source_cmd)

C14_AnyEditStep ==
    (EditStep /\ IsNone(Before))
    => /\ res'.status = "NotFound"
       /\ keyring' = keyring
       /\ indexFile' = indexFile

\* C14 as stated: every edit for a pair that has no record in the keyring
\* fails with NotFound and leaves the keyring and the index file as they
\* were.
C14_AnyEditNotFound == [][C14_AnyEditStep]_vars

C14_Step ==
    (EditStep /\ IsNone(Before))
    => /\ res'.status = IF Modifies(req') THEN "NotFound" ELSE "NoModifications"
       /\ IsNone(After)
       /\ keyring' = keyring
       /\ indexFile' = indexFile

\* C14: an edit that names at least one change, for a pair that has no
\* record in the keyring, fails with NotFound; an edit that names no change
\* fails with NoModifications before the keyring is read, also when the
\* pair has no record; either way the keyring and the index file are left
\* as they were and the pair still has no record.
C14_EditNotFound == [][C14_Step]_vars

\* An edit with a new TTL failed with NotFound for a pair whose record had
\* been deleted: the keyring still has no record for it.
C14_Witness ==
    /\ pc = "done"
    /\ req.op = "edit"
    /\ IsSome(req.ttl)
    /\ res.status = "NotFound"
    /\ IsNone(Held)
    /\ indexFile = Some(<<>>)

C15_Step ==
    (EditStep /\ ~Modifies(req'))
    => /\ res'.status = "NoModifications"
       /\ IsNone(res'.stored)
       /\ keyring' = keyring
       /\ indexFile' = indexFile

\* C15: an edit that names none of a new TTL, --clear-ttl, --source-sh and
\* --source-cmd fails with NoModifications, writes no record, and leaves the
\* keyring and the index file as they were, whether or not the pair has a
\* record.
C15_NoModifications == [][C15_Step]_vars

\* An edit without any change failed with NoModifications for a pair that
\* has a record with a TTL, which is still stored and indexed.
C15_Witness ==
    /\ pc = "done"
    /\ req.op = "edit"
    /\ ~Modifies(req)
    /\ res.status = "NoModifications"
    /\ IsSome(Held)
    /\ IsSome(Unwrap(Held).ttl_seconds)
    /\ IsSome(indexFile)
    /\ Len(Unwrap(indexFile)) = 1

\* An edit invocation ran and succeeded.
Edited == EditStep /\ res'.status = "ok"

C16_Step ==
    Edited
    => /\ res'.calls = <<>>
       /\ res'.procs = 0
       /\ IsNone(res'.fetched)
       /\ IsSome(Before)
       /\ IsSome(After)
       /\ Unwrap(After).value = Unwrap(Before).value
       /\ Unwrap(After).created_at = Unwrap(Before).created_at

\* C16: a successful edit hands nothing to the source resolver and starts no
\* process, and the record the keyring holds for the pair afterwards has
\* the value and the created_at of the record it held before, whichever of
\* --ttl, --clear-ttl, --source-sh and --source-cmd the edit carries.
C16_MetadataOnly == [][C16_Step]_vars

\* An edit changed both the TTL and the source of a record created earlier;
\* the record still has its value and its created_at.
C16_Witness ==
    /\ pc = "done"
    /\ req.op = "edit"
    /\ res.status = "ok"
    /\ IsSome(req.ttl)
    /\ IsSome(req.source_cmd)
    /\ Held # res.existing
    /\ Unwrap(Held).source_command # Unwrap(res.existing).source_command
    /\ Unwrap(Held).ttl_seconds # Unwrap(res.existing).ttl_seconds
    /\ Unwrap(Held).value = Unwrap(res.existing).value
    /\ Unwrap(Held).created_at = Unwrap(res.existing).created_at
    /\ Unwrap(Held).created_at < now

\* The clock readings of an invocation that starts once the one that has
\* just ended is over.
ReadingsFromNow == now..MaxTime

\* C17: after a successful edit with --clear-ttl the record of the pair has
\* neither ttl_seconds nor expires_at, whatever it had before, and every
\* following get for the pair without --force-refresh and without
\* --no-refresh, at whatever time, prints the stored value without handing
\* anything to the source resolver and without writing, also when the
\* record was expired before the edit.
C17_ClearTtl ==
    (/\ pc = "done"
     /\ req.op = "edit"
     /\ res.status = "ok"
     /\ req.clear_ttl)
    => /\ IsSome(Held)
       /\ Unwrap(Held).ttl_seconds = None
       /\ Unwrap(Held).expires_at = None
       /\ "ttl_seconds" \notin DOMAIN Unwrap(keyring[<<ServiceName(req.namespace),
                                                        req.secret>>])
       /\ "expires_at" \notin DOMAIN Unwrap(keyring[<<ServiceName(req.namespace),
                                                       req.secret>>])
       /\ \A q \in UnforcedAfter(req), env \in FollowEnvs, t \in ReadingsFromNow :
             LET o == CmdGet(keyring, indexFile, t, q, env)
             IN  /\ o.res.status = "ok"
                 /\ o.res.stdout = Some(Unwrap(res.existing).value)
                 /\ o.res.calls = <<>>
                 /\ o.res.procs = 0
                 /\ o.keyring = keyring
                 /\ o.indexFile = indexFile

\* An edit with --clear-ttl succeeded on a record that was expired; the
\* record now has no TTL and no expiry.
C17_Witness ==
    /\ pc = "done"
    /\ req.op = "edit"
    /\ res.status = "ok"
    /\ req.clear_ttl
    /\ IsSome(res.existing)
    /\ PastExpiry(Unwrap(res.existing), now)
    /\ IsSome(Unwrap(res.existing).ttl_seconds)
    /\ Unwrap(Held).ttl_seconds = None
    /\ Unwrap(Held).expires_at = None
    /\ Unwrap(Held).value = Unwrap(res.existing).value

\* C18: after a successful edit with --ttl t the record of the pair has
\* ttl_seconds = t and expires_at = created_at + t, where created_at is
\* that of the record before the edit and not the time of the edit; when t
\* is smaller than the age of the record, the record is expired at the time
\* of the edit: a get without --force-refresh and without --no-refresh that
\* follows at that very clock reading does not serve it but hands a command
\* to the source resolver.
C18_EditTtl ==
    (/\ pc = "done"
     /\ req.op = "edit"
     /\ res.status = "ok"
     /\ IsSome(req.ttl))
    => LET t == Unwrap(req.ttl)
           created_at == Unwrap(res.existing).created_at
       IN  /\ IsSome(Held)
           /\ Unwrap(Held).created_at = created_at
           /\ Unwrap(Held).ttl_seconds = Some(t)
           /\ Unwrap(Held).expires_at = Some(created_at + t)
           /\ created_at < now => Unwrap(Held).expires_at # Some(now + t)
           /\ t < now - created_at
                => \A q \in UnforcedAfter(req), env \in FollowEnvs :
                      LET o == CmdGet(keyring, indexFile, now, q, env)
                      IN  Len(o.res.calls) = 1 /\ o.res.at # "L105"

\* An edit gave a record that was not expired a TTL smaller than its age:
\* its expiry now lies before the time of the edit.
C18_Witness ==
    /\ pc = "done"
    /\ req.op = "edit"
    /\ res.status = "ok"
    /\ IsSome(req.ttl)
    /\ Unwrap(req.ttl) >= 0
    /\ Unwrap(req.ttl) < now - Unwrap(res.existing).created_at
    /\ ~PastExpiry(Unwrap(res.existing), now)
    /\ PastExpiry(Unwrap(Held), now)
    /\ Unwrap(Held).expires_at =
         Some(Unwrap(res.existing).created_at + Unwrap(req.ttl))

\* The edit names a TTL change; the edit names a source change.
ChangesTtl(r) == IsSome(r.ttl) \/ r.clear_ttl

ChangesSource(r) == IsSome(r.source_sh) \/ IsSome(r.source_cmd)

C19_Step ==
    Edited
    => LET old == Unwrap(Before)
           new == Unwrap(After)
       IN  /\ IsSome(Before) /\ IsSome(After)
           /\ After = res'.stored
           /\ ~ChangesTtl(req')
                => /\ new.ttl_seconds = old.ttl_seconds
                   /\ new.expires_at = old.expires_at
           /\ ~ChangesSource(req')
                => /\ new.source_command = old.source_command
                   /\ new.source_type = old.source_type
           /\ req'.clear_ttl
                => new.ttl_seconds = None /\ new.expires_at = None
           /\ IsSome(req'.ttl)
                => /\ new.ttl_seconds = req'.ttl
                   /\ new.expires_at = Some(old.created_at + Unwrap(req'.ttl))
           /\ IsSome(req'.source_sh)
                => /\ new.source_command = req'.source_sh
                   /\ new.source_type = Some("sh")
           /\ IsSome(req'.source_cmd)
                => /\ new.source_command = req'.source_cmd
                   /\ new.source_type = Some("cmd")

\* C19: a successful edit that names only a source change leaves
\* ttl_seconds and expires_at of the record as they were; one that names
\* only --ttl or --clear-ttl leaves source_command and source_type as they
\* were; one that names both writes a single record that has the new TTL
\* with its expiry and the new command with its mode.
C19_Independent == [][C19_Step]_vars

\* One edit cleared the TTL of a record and replaced its direct-mode source
\* by a shell-line source; the one record stored has both changes.
C19_Witness ==
    /\ pc = "done"
    /\ req.op = "edit"
    /\ res.status = "ok"
    /\ req.clear_ttl
    /\ IsSome(req.source_sh)
    /\ IsSome(Unwrap(res.existing).ttl_seconds)
    /\ Unwrap(res.existing).source_type = Some("cmd")
    /\ Unwrap(res.existing).source_command # req.source_sh
    /\ Held = res.stored
    /\ Unwrap(Held).ttl_seconds = None
    /\ Unwrap(Held).expires_at = None
    /\ Unwrap(Held).source_command = req.source_sh
    /\ Unwrap(Held).source_type = Some("sh")

\* A step in which a delete invocation runs.
DeleteStep == pc = "idle" /\ pc' = "done" /\ req'.op = "delete"

\* The positions of the index in `file` that hold the pair.
IndexedAt(file, namespace, secret) ==
    LET idx == IF IsSome(file) THEN Unwrap(file) ELSE <<>>
    IN  {i \in 1..Len(idx) :
            idx[i].namespace = namespace /\ idx[i].secret = secret}

C20_Step ==
    DeleteStep
    => LET again == CmdDelete(keyring', indexFile', now', req')
       IN  /\ res'.status = "ok"
           /\ IsNone(After)
           /\ IndexedAt(indexFile', req'.namespace, req'.secret) = {}
           /\ RowsOf(CmdList(keyring', indexFile', now',
                              [op |-> "list", namespace |-> None]),
                      req'.namespace, req'.secret) = {}
           /\ again.res.status = "ok"
           /\ again.keyring = keyring'
           /\ again.indexFile = indexFile'
           /\ (/\ IsNone(Before)
               /\ IndexedAt(indexFile, req'.namespace, req'.secret) = {})
                => /\ keyring' = keyring
                   /\ IsSome(indexFile) => indexFile' = indexFile

\* C20: a delete for a pair succeeds whether or not the pair had a record;
\* afterwards the keyring has no record for the pair and the index file, and
\* so a list, has no entry for it; a delete of a pair that had neither
\* changes neither the keyring nor an existing index file; and a second
\* delete of the pair succeeds and leaves the keyring and the index file as
\* the first left them.
C20_Delete == [][C20_Step]_vars

\* A delete has run: the keyring has no record for the pair, the index file
\* exists and lists nothing, and one more delete changes neither.
C20_Witness ==
    /\ pc = "done"
    /\ req.op = "delete"
    /\ res.status = "ok"
    /\ IsNone(Held)
    /\ indexFile = Some(<<>>)
    /\ CmdDelete(keyring, indexFile, now, req).keyring = keyring
    /\ CmdDelete(keyring, indexFile, now, req).indexFile = indexFile

\* The index the file holds.
Index == IF IsSome(indexFile) THEN Unwrap(indexFile) ELSE <<>>

\* The positions of idx that hold the pair.
PositionsOf(idx, namespace, secret) ==
    {i \in 1..Len(idx) : idx[i].namespace = namespace /\ idx[i].secret = secret}

\* C21: whatever upsert and remove calls were made from the empty index, the
\* index holds at most one entry per (namespace, name); an upsert of a pair
\* that is present leaves the length and every other entry as they were and
\* gives the entry of the pair, at its old position, the created_at of the
\* call; an upsert of a pair that is absent appends exactly one entry for
\* it.
C21_IndexUnique ==
    /\ \A i, j \in 1..Len(Index) :
          (Index[i].namespace = Index[j].namespace
             /\ Index[i].secret = Index[j].secret) => i = j
    /\ (pc = "index" /\ req.op = "upsert")
         => LET at == PositionsOf(res.before, req.namespace, req.secret)
                entry == [namespace |-> req.namespace, secret |-> req.secret,
                          created_at |-> req.created_at]
            IN  IF at # {}
                THEN /\ Len(Index) = Len(res.before)
                     /\ \A i \in 1..Len(Index) :
                           Index[i] = IF i \in at THEN entry ELSE res.before[i]
                ELSE Index = res.before \o <<entry>>

\* An upsert named a pair that was already in an index of two entries, with
\* another created_at: the index still has two entries and the first one
\* has the new created_at.
C21_Witness ==
    /\ pc = "index"
    /\ req.op = "upsert"
    /\ Len(res.before) = 2
    /\ PositionsOf(res.before, req.namespace, req.secret) = {1}
    /\ res.before[1].created_at # req.created_at
    /\ Len(Index) = 2
    /\ Index[1].created_at = req.created_at
    /\ Index[2] = res.before[2]

\* The pairs of the rows, in the order of the rows.
PairsOf(rows) == [i \in 1..Len(rows) |-> <<rows[i].namespace, rows[i].secret>>]

\* C22: filter with a namespace returns exactly the entries of the index
\* whose namespace equals it, filter without a namespace returns every
\* entry, and either way the entries come in the order in which their pairs
\* were first inserted since they were last removed: an upsert of a pair that
\* is present does not move it.
C22_Filter ==
    (pc = "index" /\ req.op = "filter")
    => /\ \A i \in 1..Len(res.rows) :
             \E k \in 1..Len(Index) : Index[k] = res.rows[i]
       /\ PairsOf(res.rows) =
            SelectSeq(res.inserted,
                      LAMBDA p : IsNone(req.namespace) \/ p[1] = Unwrap(req.namespace))
       /\ IsNone(req.namespace) => res.rows = Index
       /\ \A k \in 1..Len(Index) :
             (IsSome(req.namespace) /\ Index[k].namespace = Unwrap(req.namespace))
               => \E i \in 1..Len(res.rows) : res.rows[i] = Index[k]
       /\ \A i \in 1..Len(res.rows) :
             IsSome(req.namespace) => res.rows[i].namespace = Unwrap(req.namespace)

\* A filter by namespace returned the first and the third entry of an index
\* of three, in that order, and left out the second, which is of another
\* namespace.
C22_Witness ==
    /\ pc = "index"
    /\ req.op = "filter"
    /\ req.namespace = Some("n1")
    /\ Len(Index) = 3
    /\ Index[2].namespace = "n2"
    /\ res.rows = <<Index[1], Index[3]>>
    /\ PairsOf(Index) = res.inserted

\* The index in `file` has an entry for the pair exactly when the keyring
\* has a record for it.
Agree(kr, file, namespace, secret) ==
    (IndexedAt(file, namespace, secret) # {})
      <=> IsSome(GetSecret(kr, namespace, secret))

\* The invocation that has just ended wrote the keyring and failed on the
\* index file.
IndexWriteFailed ==
    pc = "done" /\ res.status = "Io" /\ res.at \in {"L136", "L151"}

\* What repeating the request that has just ended does at clock reading t.
Retry(t, env) ==
    IF req.op = "get"
    THEN CmdGet(keyring, indexFile, t, req, env)
    ELSE CmdDelete(keyring, indexFile, t, req)

\* C23: when a get or a delete wrote the keyring and its write of the index
\* file did not happen, the same request repeated, whenever it succeeds,
\* leaves an index file that has an entry for the pair exactly when the
\* keyring has a record for it.
C23_RetryHeals ==
    IndexWriteFailed
    => \A env \in FollowEnvs, t \in ReadingsFromNow :
          LET o == Retry(t, env)
          IN  o.res.status = "ok"
                => Agree(o.keyring, o.indexFile, req.namespace, req.secret)

\* The command line names two arguments that exclude each other.
Conflicting(r) ==
    \/ r.op = "get" /\ r.force_refresh /\ r.no_refresh
    \/ r.op \in {"get", "edit"} /\ IsSome(r.source_sh) /\ IsSome(r.source_cmd)
    \/ r.op = "edit" /\ IsSome(r.ttl) /\ r.clear_ttl

C24_Step ==
    (pc = "idle" /\ pc' = "done" /\ Conflicting(req'))
    => /\ res'.status = "usage"
       /\ res'.stdout = None
       /\ res'.calls = <<>>
       /\ res'.procs = 0
       /\ keyring' = keyring
       /\ indexFile' = indexFile

\* C24: a get with both --force-refresh and --no-refresh, a get or an edit
\* with both --source-sh and --source-cmd, and an edit with both --ttl and
\* --clear-ttl end with a usage error: nothing is handed to the source
\* resolver, no process is started, nothing is printed, and the keyring and
\* the index file are left as they were.
C24_Conflicts == [][C24_Step]_vars

\* An edit with both --ttl and --clear-ttl was rejected for a pair that has
\* a record with a TTL other than the one named; the record is as it was.
C24_Witness ==
    /\ pc = "done"
    /\ req.op = "edit"
    /\ IsSome(req.ttl)
    /\ req.clear_ttl
    /\ res.status = "usage"
    /\ IsSome(Held)
    /\ IsSome(Unwrap(Held).ttl_seconds)
    /\ Unwrap(Held).ttl_seconds # req.ttl

\* A step in which a get, an edit or a delete runs.
RequestStep ==
    pc = "idle" /\ pc' = "done" /\ req'.op \in {"get", "edit", "delete"}

\* The entry the index in `file` has for the pair, None when it has none.
EntryOf(file, p) ==
    LET idx == IF IsSome(file) THEN Unwrap(file) ELSE <<>>
        at == {i \in 1..Len(idx) : idx[i].namespace = p[1] /\ idx[i].secret = p[2]}
    IN  IF at = {} THEN None ELSE Some(idx[CHOOSE i \in at : TRUE])

\* The pairs other than the one the invocation names.
OtherPairs(r) == (Namespaces \X Names) \ {<<r.namespace, r.secret>>}

C25_Step ==
    RequestStep
    => \A p \in OtherPairs(req') :
          /\ GetSecret(keyring', p[1], p[2]) = GetSecret(keyring, p[1], p[2])
          /\ EntryOf(indexFile', p) = EntryOf(indexFile, p)

\* C25: a get, an edit or a delete for a pair leaves the keyring record and
\* the index entry of every other pair as they were, also of a pair with
\* the same name in another namespace and of a pair with another name in
\* the same namespace.
C25_Isolation == [][C25_Step]_vars

\* A delete removed the record and the entry of n1/s1 while n2/s1 and n1/s2
\* have both, and they still have them.
C25_Witness ==
    /\ pc = "done"
    /\ req.op = "delete"
    /\ req.namespace = "n1"
    /\ req.secret = "s1"
    /\ IsNone(Held)
    /\ IsSome(GetSecret(keyring, "n2", "s1"))
    /\ IsSome(GetSecret(keyring, "n1", "s2"))
    /\ IsSome(EntryOf(indexFile, <<"n2", "s1">>))
    /\ IsSome(EntryOf(indexFile, <<"n1", "s2">>))
    /\ IsNone(EntryOf(indexFile, <<"n1", "s1">>))
    /\ GetSecret(keyring, "n2", "s1") # GetSecret(keyring, "n1", "s2")

\* C28: in sequential use from an empty keyring and no index file, whatever
\* get, edit and delete invocations have run, the index has an entry for a
\* pair exactly when the keyring has a record for it, and the created_at of
\* the entry is the created_at of the record.
C28_Agreement ==
    \A p \in Namespaces \X Names :
        LET rec == GetSecret(keyring, p[1], p[2])
            entry == EntryOf(indexFile, p)
        IN  /\ IsSome(entry) <=> IsSome(rec)
            /\ IsSome(rec) => Unwrap(entry).created_at = Unwrap(rec).created_at

\* A get replaced an older record by a new one: the index entry of the pair
\* has the created_at of the new record.
C28_Witness ==
    /\ pc = "done"
    /\ req.op = "get"
    /\ res.status = "ok"
    /\ IsSome(res.existing)
    /\ Unwrap(res.existing).created_at < now
    /\ Held = res.stored
    /\ Unwrap(Held).created_at = now
    /\ EntryOf(indexFile, <<req.namespace, req.secret>>) =
         Some([namespace |-> req.namespace, secret |-> req.secret,
               created_at |-> now])

\* The keyring entry of the pair.
EntryFor(q) == keyring[<<ServiceName(q[1]), q[2]>>]

\* Process p runs, or has just ended, an invocation for pair q.
Runs(p, op, q) ==
    /\ req[p].op = op
    /\ <<req[p].namespace, req[p].secret>> = q

\* C26: when invocations run concurrently, the keyring entry of a pair is at
\* every moment exactly what the last keyring write for the pair wrote: the
\* whole record a get built or an edit edited, or nothing after a delete,
\* never fields of two writes; an edit whose write is the last one leaves
\* the value and the created_at of the record it read at its start, also
\* when a get has refreshed the pair in between.
C26_LastWriterWins ==
    /\ \A q \in RacePairs : EntryFor(q) = res.last[q]
    /\ \A p \in Procs, q \in RacePairs :
          (/\ pc[p] = "done"
           /\ Runs(p, "edit", q)
           /\ res.local[p].status = "ok"
           /\ res.last[q] = Some(ToJson(Unwrap(res.local[p].stored))))
          => LET held == Unwrap(GetSecret(keyring, q[1], q[2]))
                 read == Unwrap(res.local[p].existing)
             IN  held.value = read.value /\ held.created_at = read.created_at

\* An edit and a get of the same pair both read the record with value v;
\* the get has written its record with value w and the edit has written
\* after it: the keyring holds the edited record with value v.
C26_Witness ==
    \E q \in RacePairs :
        /\ pc[1] = "done" /\ Runs(1, "edit", q) /\ res.local[1].status = "ok"
        /\ pc[2] = "done" /\ Runs(2, "get", q) /\ res.local[2].status = "ok"
        /\ res.local[1].existing = res.local[2].existing
        /\ Unwrap(res.local[1].existing).value = <<"v">>
        /\ Unwrap(res.local[2].stored).value = <<"w">>
        /\ GetSecret(keyring, q[1], q[2]) = res.local[1].stored
        /\ Unwrap(GetSecret(keyring, q[1], q[2])).value = <<"v">>

\* Process p saves the index file in this step.
Saves(p) == pc[p] \in {"L136", "L151"} /\ pc'[p] = "done"

C27_Step ==
    \A p \in Procs :
        Saves(p)
        => LET own == <<req[p].namespace, req[p].secret>>
               loaded == Some(res.local[p].idx)
           IN  /\ \A q \in RacePairs \ {own} :
                     EntryOf(indexFile', q) = EntryOf(loaded, q)
               /\ IF req[p].op = "get"
                  THEN /\ IsSome(EntryOf(indexFile', own))
                       /\ Unwrap(EntryOf(indexFile', own)).created_at =
                            Unwrap(res.local[p].stored).created_at
                  ELSE IsNone(EntryOf(indexFile', own))

\* C27: an invocation saves the index it loaded earlier with only the entry
\* of its own pair upserted (get) or removed (delete): for every other pair
\* the file then holds what the invocation had loaded, whatever another
\* invocation has saved since; so two invocations that both succeed can
\* leave a record in the keyring whose pair the index does not list.
C27_LostUpdate == [][C27_Step]_vars

\* Two gets for different pairs have both ended successfully and both
\* records are in the keyring, but the index lists only the pair of
\* process 2: both had loaded the empty index, and the entry process 1
\* saved was overwritten.
C27_Witness ==
    /\ pc[1] = "done" /\ Runs(1, "get", <<"n1", "s1">>)
    /\ pc[2] = "done" /\ Runs(2, "get", <<"n2", "s1">>)
    /\ res.local[1].status = "ok"
    /\ res.local[2].status = "ok"
    /\ res.local[1].idx = <<>>
    /\ res.local[2].idx = <<>>
    /\ GetSecret(keyring, "n1", "s1") = res.local[1].stored
    /\ GetSecret(keyring, "n2", "s1") = res.local[2].stored
    /\ IsNone(EntryOf(indexFile, <<"n1", "s1">>))
    /\ IsSome(EntryOf(indexFile, <<"n2", "s1">>))

\* The (command, mode) an override names: --source-sh before --source-cmd.
OverrideOf(r) ==
    IF IsSome(r.source_sh) THEN <<r.source_sh, Some("sh")>>
    ELSE <<r.source_cmd, Some("cmd")>>

\* The (command, mode) of the record the keyring kr holds under key k.
SourceAt(kr, k) ==
    IF IsSome(kr[k])
    THEN <<FromJson(Unwrap(kr[k])).source_command,
           FromJson(Unwrap(kr[k])).source_type>>
    ELSE <<None, None>>

C29_Step ==
    /\ \A k \in KeyringKeys :
          IsSome(keyring'[k])
          => /\ IsSome(SourceAt(keyring', k)[1])
             /\ IsSome(SourceAt(keyring', k)[2])
             /\ SourceAt(keyring', k) # SourceAt(keyring, k)
                  => /\ RequestStep
                     /\ req'.op \in {"get", "edit"}
                     /\ k = <<ServiceName(req'.namespace), req'.secret>>
                     /\ HasOverride(req')
                     /\ SourceAt(keyring', k) = OverrideOf(req')
    /\ (GetStep /\ res'.status = "NoSource") => IsNone(Before)

\* C29: starting from an empty keyring, every record a get, an edit or a
\* delete leaves in the keyring has source_command and source_type present;
\* the two change only in a get or an edit of the record's pair that carries
\* --source-sh or --source-cmd, and then they are that command with mode sh
\* or cmd respectively; and a get that fails with NoSource found no record
\* for its pair.
C29_StoredSource == [][C29_Step]_vars

\* An edit with --source-cmd rewrote a record fetched with a shell line: the
\* record now has the new command with mode cmd, and a forced get without
\* override hands exactly that to the source resolver.
C29_Witness ==
    /\ pc = "done"
    /\ req.op = "edit"
    /\ IsNone(req.source_sh)
    /\ IsSome(req.source_cmd)
    /\ res.status = "ok"
    /\ Unwrap(res.existing).source_type = Some("sh")
    /\ Unwrap(res.existing).source_command # req.source_cmd
    /\ Unwrap(Held).source_type = Some("cmd")
    /\ Unwrap(Held).source_command = req.source_cmd
    /\ \E q \in PlainAfter(req), env \in FollowEnvs :
          /\ q.force_refresh
          /\ CmdGet(keyring, indexFile, now, q, env).res.calls =
               <<<<Unwrap(req.source_cmd), "cmd">>>>

C30_Step ==
    /\ EditStep => indexFile' = indexFile
    /\ Edited
       => LET own == <<ServiceName(req'.namespace), req'.secret>>
          IN  /\ keyring'[own] = Some(ToJson(Unwrap(res'.stored)))
              /\ \A k \in KeyringKeys \ {own} : keyring'[k] = keyring[k]

\* C30: an edit leaves the index file as it was, whichever of --ttl,
\* --clear-ttl, --source-sh and --source-cmd it carries and whether it
\* succeeds or not; a successful edit writes the record of its pair to the
\* keyring and changes no other keyring entry.
C30_EditLeavesIndex == [][C30_Step]_vars

\* An edit that changed both the TTL and the source of a record succeeded
\* some time after the get that created it: the record in the keyring is
\* another one, and the index still has the pair's entry with the creation
\* time of the record.
C30_Witness ==
    /\ pc = "done"
    /\ req.op = "edit"
    /\ res.status = "ok"
    /\ IsSome(req.ttl)
    /\ IsSome(req.source_sh)
    /\ Held = res.stored
    /\ Held # res.existing
    /\ IsSome(EntryOf(indexFile, <<req.namespace, req.secret>>))
    /\ Unwrap(EntryOf(indexFile, <<req.namespace, req.secret>>)).created_at =
         Unwrap(res.existing).created_at
    /\ Unwrap(res.existing).created_at < now

\* The TTL a refreshing get gives the record it builds: the --ttl override,
\* else the TTL of the record it found.
TtlInEffect ==
    IF IsSome(req'.ttl) THEN req'.ttl
    ELSE IF IsSome(Before) THEN Unwrap(Before).ttl_seconds ELSE None

\* The instant created_at + ttl is not one a Timestamp can hold.
OutOfRange(created_at, ttl) ==
    created_at + ttl > TsMax \/ created_at + ttl < TsMin

C31_Step ==
    (/\ GetStep
     /\ MustRefresh(req', Before, now)
     /\ HasOverride(req') \/ Remembers(Before)
     /\ IsSome(TtlInEffect)
     /\ OutOfRange(now', Unwrap(TtlInEffect)))
    => /\ Len(res'.calls) = 1
       /\ res'.status # "ok"
       /\ IsSome(res'.fetched) => res'.status = "panic" /\ res'.at = "L128"
       /\ res'.stdout = None
       /\ IsNone(res'.stored)
       /\ keyring' = keyring
       /\ indexFile' = indexFile

\* C31: a get that has to refresh and has a source, and whose TTL in effect
\* (the --ttl override, else the TTL of the record found) added to the clock
\* reading taken when the record is built is not a Timestamp, hands the
\* source to the source resolver once and then stops: it does not end
\* successfully, and when the source gave a value it panics in
\* StoredSecret::new; it prints nothing and leaves the keyring and the index
\* file as they were.
C31_TtlOutOfRange == [][C31_Step]_vars

\* A forced get without --ttl found a record whose remembered TTL no longer
\* fits at the present clock reading: the source gave a value, the get
\* panicked, printed nothing, and the keyring still holds the old record.
C31_Witness ==
    /\ pc = "done"
    /\ req.op = "get"
    /\ req.force_refresh
    /\ IsNone(req.ttl)
    /\ res.status = "panic"
    /\ IsSome(res.fetched)
    /\ res.procs = 1
    /\ IsSome(res.existing)
    /\ IsSome(Unwrap(res.existing).ttl_seconds)
    /\ now + Unwrap(Unwrap(res.existing).ttl_seconds) > TsMax
    /\ res.stdout = None
    /\ Held = res.existing
    /\ IsSome(EntryOf(indexFile, <<req.namespace, req.secret>>))
    /\ Unwrap(EntryOf(indexFile, <<req.namespace, req.secret>>)).created_at =
         Unwrap(res.existing).created_at

====
